---- MODULE Spec2Model ----
(***************************************************************************)
(* Model of the LLM-orchestration pipeline of exp_classifier: the retry    *)
(* wrappers and the thread-pool merge of src/pipeline, the category        *)
(* consolidator, the index-line batch classifier of src/task_classifier.py,*)
(* TaskClassifier.classify_tasks of src/jira_classifier and the category   *)
(* parsers.                                                                *)
(*                                                                         *)
(* Texts (model responses, category names, lines) are sequences of         *)
(* one-character strings, so that strip/split/int are computed and not     *)
(* assumed.  Every component has its own specification; the variables of   *)
(* the components that do not run are held at an "off" value.              *)
(***************************************************************************)
EXTENDS Integers, Sequences, FiniteSets, TLC

VARIABLES
    \* ---- retry wrapper + thread pool (src/pipeline/*.py) ----
    stage,          \* which stage runs through the pool
    units,          \* indices of the units of work submitted to the pool
    max_retries,    \* max_retries argument of the *_with_retries wrapper
    max_workers,    \* ThreadPoolExecutor(max_workers=...)
    category_names, \* categories_df['Название'], in row order
    upc,            \* per unit: position of its worker in the wrapper
    attempt,        \* per unit: loop variable of `for attempt in range(max_retries)`
    calls,          \* per unit: invocations of the per-unit function so far
    raised,         \* per unit: invocations of it that raised
    llm_failed,     \* per unit: model calls that raised so far
    llm_response,   \* per unit: `response` of the last attempt, if the call returned
    last_error,     \* per unit: text of the exception of the last raising attempt
    delays,         \* per unit: arguments of time.sleep, in order
    future,         \* per unit: tuple returned by the wrapper (the future's result)
    table,          \* coordinator's DataFrame column: assigned_category / summary
    all_categories, \* coordinator's list of the category generator
    categories_df,  \* category generator's table after drop_duplicates
    success_count,
    error_count,
    retry_count,
    drained,        \* units whose future the coordinator has consumed
    cpc,            \* coordinator position: "draining", "done", "crashed", "off"
    \* ---- create_final_categories (src/pipeline/category_consolidator.py) ----
    candidates,     \* categories_df argument: the candidate rows
    target_count,
    requests,       \* model requests issued by this run
    consolidated_response,  \* text returned by the model, <<>> before
    final_categories_df,    \* the table the function returns
    final_note,     \* which branch produced final_categories_df
    final_file,     \* path returned with it, "none" when the save failed
    kpc,            \* "start", "waiting", "done", "off"
    \* ---- classify_all_tasks (src/task_classifier.py) ----
    tasks_df,       \* keys of the tasks, in row order
    b_categories,   \* categories_df['Название'] given to classify_all_tasks
    batch_size,
    next_i,         \* loop variable i of `for i in range(0, len(tasks_df), batch_size)`
    all_classifications,
    classified_df,  \* per row: key, assigned_category, category_id
    failed_batches, \* batches whose try block raised
    bpc,            \* "loop", "done", "off"
    \* ---- parse_classification_response applied to one input ----
    pr_lines,       \* the lines response_text is made of
    pr_batch,       \* keys of tasks_batch
    pr_categories,  \* category names
    pr_out,         \* what the call produced: results, or an exception
    ppc,            \* "input", "parsed", "off"
    \* ---- TaskClassifier.classify_tasks (src/jira_classifier) ----
    cls_tasks,      \* keys of the tasks argument, in order
    cls_categories, \* names of the categories argument, in order
    cls_batch_size,
    cls_i,          \* loop variable i of `for i in range(0, len(tasks), batch_size)`
    cls_results,    \* the list `results`
    low_tasks,      \* keys of the tasks handed to _reclassify_low_confidence
    low_confidence_results,
    improved_results,
    llm_requests,   \* model requests issued so far: kind and task keys
    detailed_outcomes,  \* per pass of the second loop: what simple_chat did
    batch_raised,       \* per pass of the batch loop: whether simple_chat raised
    xpc,            \* "loop", "reclassify", "returned", "raised", "off"
    \* ---- CategoryCreator._create_representative_sample ----
    s_tasks,        \* the tasks argument: key and issue_type of each task
    sample_size,
    pending_types,  \* keys of tasks_by_type the stratified loop has not reached
    type_samples,   \* per pass of the stratified loop: type, type_sample_size
    sample,         \* the list `sample`, and in the end the returned list
    random_calls,   \* calls of random.sample so far
    mpc,            \* "called", "strata", "returned", "off"
    \* ---- run_full_pipeline (src/jira_classifier) and main_classification ----
    run_input,      \* entry point and what the ticket source / the disk hold
    stages_run,     \* the calls made so far, in order
    model_requests, \* requests sent to the model so far
    run_error,      \* the exception raised, "" when none
    qpc             \* "start", "fetched", ..., "returned", "raised", "off"

poolVars == <<stage, units, max_retries, max_workers, category_names, upc, attempt,
              calls, raised, llm_failed, llm_response, last_error, delays, future, table,
              all_categories, categories_df, success_count, error_count,
              retry_count, drained, cpc>>

consVars == <<candidates, target_count, requests, consolidated_response,
              final_categories_df, final_note, final_file, kpc>>

batchVars == <<tasks_df, b_categories, batch_size, next_i,
               all_classifications, classified_df, failed_batches, bpc>>

parseVars == <<pr_lines, pr_batch, pr_categories, pr_out, ppc>>

clsVars == <<cls_tasks, cls_categories, cls_batch_size, cls_i, cls_results,
             low_tasks, low_confidence_results, improved_results,
             llm_requests, detailed_outcomes, batch_raised, xpc>>

sampleVars == <<s_tasks, sample_size, pending_types, type_samples, sample,
                random_calls, mpc>>

pipeVars == <<run_input, stages_run, model_requests, run_error, qpc>>

vars == <<poolVars, consVars, batchVars, parseVars, clsVars, sampleVars, pipeVars>>

\* what the actions of one component leave alone in the others
PoolFrame == UNCHANGED <<consVars, batchVars, parseVars, clsVars, sampleVars, pipeVars>>
ConsFrame == UNCHANGED <<poolVars, batchVars, parseVars, clsVars, sampleVars, pipeVars>>
BatchFrame == UNCHANGED <<poolVars, consVars, parseVars, clsVars, sampleVars, pipeVars>>
ParseFrame == UNCHANGED <<poolVars, consVars, batchVars, clsVars, sampleVars, pipeVars>>
ClsFrame == UNCHANGED <<poolVars, consVars, batchVars, parseVars, sampleVars, pipeVars>>

-----------------------------------------------------------------------------
(* Bounds of the model *)
NumUnits == 2        \* units of work submitted to the pool
MaxRetriesArg == 3   \* largest max_retries argument explored
MaxWorkersArg == 2   \* largest max_workers argument explored
MaxCandidates == 3   \* largest candidate table given to the consolidator
MaxTarget == 2       \* largest target_count explored
MaxResponseLines == 2 \* lines of a consolidation / classification response
MaxTasks == 3        \* largest task table given to a classifier
MaxBatchSize == 2    \* largest batch_size explored
MaxClsTasks == 2     \* largest task list given to TaskClassifier
MaxBlocks == 2       \* task blocks in a response to TaskClassifier
MaxSampleTasks == 4  \* longest enumerated task list given to the sampler
MaxSampleSize == 4   \* largest sample_size explored
MaxFound == 2        \* most tasks a search returns
MaxStageRequests == 3 \* most model requests one stage of a run sends

-----------------------------------------------------------------------------
(* Python str operations on character sequences *)

Whitespace == {" ", "\n"}

\* str.strip(chars)
RECURSIVE LStripChars(_, _)
LStripChars(s, cs) ==
    IF s # <<>> /\ Head(s) \in cs THEN LStripChars(Tail(s), cs) ELSE s

RECURSIVE RStripChars(_, _)
RStripChars(s, cs) ==
    IF s # <<>> /\ s[Len(s)] \in cs
    THEN RStripChars(SubSeq(s, 1, Len(s) - 1), cs)
    ELSE s

StripChars(s, cs) == RStripChars(LStripChars(s, cs), cs)

\* str.strip()
Strip(s) == StripChars(s, Whitespace)

\* the k-th smallest element of a set of numbers
Nth(P, k) == CHOOSE p \in P : Cardinality({q \in P : q < p}) = k - 1

\* the parts of s between the separators that start at the positions of
\* starts, the separator at position p being width[p] characters long
Pieces(s, starts, width) ==
    LET n == Cardinality(starts)
    IN  [k \in 1..(n + 1) |->
            SubSeq(s,
                   IF k = 1 THEN 1
                   ELSE Nth(starts, k - 1) + width[Nth(starts, k - 1)],
                   IF k = n + 1 THEN Len(s) ELSE Nth(starts, k) - 1)]

\* str.split(sep) for a one-character separator: always at least one part
Split(s, sep) ==
    Pieces(s, {p \in 1..Len(s) : s[p] = sep}, [p \in 1..Len(s) |-> 1])

StartsWith(s, p) == Len(s) >= Len(p) /\ SubSeq(s, 1, Len(p)) = p

\* `a in b` for strings
Contains(b, a) ==
    \E i \in 1..(Len(b) - Len(a) + 1) : SubSeq(b, i, i + Len(a) - 1) = a

LowerChar(c) ==
    CASE c = "A" -> "a" [] c = "B" -> "b" [] c = "I" -> "i" [] c = "P" -> "p"
      [] c = "U" -> "u" [] c = "X" -> "x" [] c = "R" -> "r" [] c = "F" -> "f"
      [] c = "C" -> "c" [] c = "W" -> "w" [] c = "Q" -> "q" [] c = "N" -> "n"
      [] c = "D" -> "d" [] c = "K" -> "k" [] c = "T" -> "t" [] OTHER -> c

Lower(s) == [i \in 1..Len(s) |-> LowerChar(s[i])]

Digits == {"0", "1", "2", "3", "4", "5", "6", "7", "8", "9"}

DigitVal(c) ==
    CASE c = "0" -> 0 [] c = "1" -> 1 [] c = "2" -> 2 [] c = "3" -> 3
      [] c = "4" -> 4 [] c = "5" -> 5 [] c = "6" -> 6 [] c = "7" -> 7
      [] c = "8" -> 8 [] c = "9" -> 9

RECURSIVE DigitsValue(_, _)
DigitsValue(s, acc) ==
    IF s = <<>> THEN acc ELSE DigitsValue(Tail(s), 10 * acc + DigitVal(Head(s)))

\* int(text): surrounding whitespace and one sign are accepted, then only
\* digits; anything else is a ValueError (ok = FALSE)
ParseInt(text) ==
    LET s == Strip(text)
        signed == s # <<>> /\ Head(s) \in {"-", "+"}
        body == IF signed THEN Tail(s) ELSE s
        good == body # <<>> /\ \A i \in 1..Len(body) : body[i] \in Digits
    IN  IF ~good THEN [ok |-> FALSE, val |-> 0]
        ELSE [ok |-> TRUE,
              val |-> IF signed /\ Head(s) = "-"
                      THEN 0 - DigitsValue(body, 0)
                      ELSE DigitsValue(body, 0)]

RECURSIVE JoinLines(_)
JoinLines(ls) ==
    IF ls = <<>> THEN <<>>
    ELSE IF Len(ls) = 1 THEN ls[1]
    ELSE ls[1] \o <<"\n">> \o JoinLines(Tail(ls))

\* sequences over S of length 0..n
SeqsUpTo(S, n) == UNION {[1..k -> S] : k \in 0..n}

-----------------------------------------------------------------------------
(* Texts used as inputs *)

T_UI == <<"U", "I">>
T_API == <<"A", "P", "I">>

\* category lists given to the classifier stages (categories_df['Название'])
CategoryLists == {<<T_UI, T_API>>, <<T_API>>}

\* str(e) of the exceptions a model call raises
Errors == {<<"t", "o">>, <<"5", "0", "0">>}

\* 'Название': the header word a response may echo
HeaderWord == <<"N", "m">>

\* texts of the model for the single-task classifier
SingleResponses ==
    {T_UI, <<" ">> \o T_API \o <<"\n">>, <<"u", "i">>, <<"p", "\n">>,
     T_API \o <<"s">>, <<"x">>}

\* texts of the model for the summarizer
SummaryResponses == {<<"d", "o">>, <<" ", "d", "o", "\n">>}

\* lines of a category table (Название;Описание;Ключевые_слова;Типы_задач)
CatLine ==
    [a |-> <<"A", ";", "d", ";", "k", ";", "t">>,
     a2 |-> <<"A", ";", "e", ";", "k", ";", "t">>,
     b |-> <<" ", "B", " ", ";", "e", ";", "k", ";", "t", ";", "x">>,
     short |-> <<"B", ";", "e">>,
     header |-> HeaderWord \o <<";", "d", ";", "k", ";", "t">>,
     comment |-> <<"#", "A", ";", "d", ";", "k", ";", "t">>,
     noname |-> <<";", "d", ";", "k", ";", "t">>,
     one |-> <<"Z">>]

\* texts of the model for the category generator
CategoryResponses ==
    {JoinLines(<<CatLine.a>>), JoinLines(<<CatLine.a2, CatLine.b>>),
     JoinLines(<<CatLine.b, CatLine.short>>),
     JoinLines(<<CatLine.header, <<>>, CatLine.comment>>)}

\* texts of the model for the batch stage of the pool
PoolBatchResponses == {<<"1", ";", "1">>, <<"x">>}

-----------------------------------------------------------------------------
(* Stages run through the thread pool *)

Stages == {"classify_single", "classify_batch", "category", "summarize"}

\* time.sleep(base * (attempt + 1)); delays are counted in half seconds
BackoffBase(st) ==
    IF st \in {"classify_single", "summarize"} THEN 1 ELSE 2

NoMsg == [kind |-> "none", attempt |-> 0, of |-> 0, err |-> <<>>]
NoFuture == [index |-> 0, value |-> <<>>, cats |-> <<>>, success |-> FALSE,
             error_msg |-> NoMsg]

\* fixed texts of the code
ErrorText ==
    [classification |-> <<"!", "c">>,     \* "Ошибка классификации"
     summary |-> <<"!", "s">>,            \* "Ошибка суммаризации"
     cls_prefix |-> <<"!", "c", ":">>,    \* "Ошибка классификации задачи: "
     sum_prefix |-> <<"!", "s", ":">>,    \* "Ошибка суммаризации: "
     sum_fail |-> <<"!", "n", ":">>]      \* "Ошибка после {n} попыток: "

Responses(st) ==
    CASE st = "classify_single" -> SingleResponses
      [] st = "classify_batch" -> PoolBatchResponses
      [] st = "category" -> CategoryResponses
      [] st = "summarize" -> SummaryResponses

\* what llm_client.simple_chat can do: raise, or return a text
LLMOutcomes(st) ==
    {[raised |-> TRUE, text |-> e] : e \in Errors}
    \cup {[raised |-> FALSE, text |-> t] : t \in Responses(st)}

-----------------------------------------------------------------------------
(* Per-unit functions of the stages *)

\* rows of a category table response that the parser keeps
RECURSIVE CategoryRows(_, _)
CategoryRows(lines, minFields) ==
    IF lines = <<>> THEN <<>>
    ELSE LET line == Strip(Head(lines))
             parts == Split(line, ";")
             rest == CategoryRows(Tail(lines), minFields)
         IN  IF line = <<>> \/ StartsWith(line, HeaderWord)
                \/ StartsWith(line, <<"#">>)
             THEN rest
             ELSE IF Len(parts) >= minFields
                  THEN <<[i \in 1..minFields |-> Strip(parts[i])]>> \o rest
                  ELSE rest

parse_categories_response(response_text) ==
    LET rows == CategoryRows(Split(Strip(response_text), "\n"), 4)
    IN  [i \in 1..Len(rows) |->
            [name |-> rows[i][1], description |-> rows[i][2],
             keywords |-> rows[i][3], issue_types |-> rows[i][4]]]

Returned(value, cats) ==
    [raised |-> FALSE, err |-> <<>>, value |-> value, cats |-> cats]
Raised(err) ==
    [raised |-> TRUE, err |-> err, value |-> <<>>, cats |-> <<>>]

\* the category the single-task classifier returns for a response text
\* variant: the text is compared as the model returned it, without strip()
ResolveCategory_NoStrip(response, names) ==
    LET similar(i) ==
            \/ Contains(Lower(names[i]), Lower(response))
            \/ Contains(Lower(response), Lower(names[i]))
    IN  IF \E i \in 1..Len(names) : names[i] = response
        THEN response
        ELSE IF \E i \in 1..Len(names) : similar(i)
             THEN names[CHOOSE i \in 1..Len(names) :
                          similar(i) /\ \A j \in 1..(i - 1) : ~similar(j)]
             ELSE names[1]

ResolveCategory(response, names) ==
    LET category_name == Strip(response)
        similar(i) ==
            \/ Contains(Lower(names[i]), Lower(category_name))
            \/ Contains(Lower(category_name), Lower(names[i]))
    IN  IF \E i \in 1..Len(names) : names[i] = category_name
        THEN category_name
        ELSE IF \E i \in 1..Len(names) : similar(i)
             THEN names[CHOOSE i \in 1..Len(names) :
                          similar(i) /\ \A j \in 1..(i - 1) : ~similar(j)]
             ELSE names[1]

classify_single_task_with_llm(names, out) ==
    IF out.raised THEN Raised(ErrorText.cls_prefix \o out.text)
    ELSE IF names = <<>> THEN Raised(ErrorText.cls_prefix)
    ELSE Returned(ResolveCategory(out.text, names), <<>>)

classify_tasks_with_llm(out) ==
    IF out.raised THEN Raised(out.text) ELSE Returned(out.text, <<>>)

\* variant: a response without a category row is treated as an error
process_batch_for_categories_Strict(out) ==
    IF out.raised THEN Raised(out.text)
    ELSE IF parse_categories_response(out.text) = <<>> THEN Raised(<<>>)
    ELSE Returned(<<>>, parse_categories_response(out.text))

process_batch_for_categories(out) ==
    IF out.raised THEN Raised(out.text)
    ELSE Returned(<<>>, parse_categories_response(out.text))

summarize_single_task(out) ==
    IF out.raised THEN Returned(ErrorText.sum_prefix \o out.text, <<>>)
    ELSE Returned(Strip(out.text), <<>>)

UnitFunction(st, names, out) ==
    CASE st = "classify_single" -> classify_single_task_with_llm(names, out)
      [] st = "classify_batch" -> classify_tasks_with_llm(out)
      [] st = "category" -> process_batch_for_categories(out)
      [] st = "summarize" -> summarize_single_task(out)

\* variant: the failure tuple carries no marker
FailureValue_Empty(st, n, err) == <<>>

\* value of the failure tuple the wrapper returns on its last attempt
FailureValue(st, n, err) ==
    CASE st = "classify_single" -> ErrorText.classification
      [] st = "summarize" -> ErrorText.sum_fail \o err
      [] OTHER -> <<>>

\* value of the failure tuple after the loop (max_retries <= 0)
ExhaustedValue(st) ==
    CASE st = "classify_single" -> ErrorText.classification
      [] st = "summarize" -> ErrorText.summary
      [] OTHER -> <<>>

-----------------------------------------------------------------------------
(* The *_with_retries wrappers, run by the workers of the pool *)

\* bug variant: the same delay before every retry
Backoff_Constant(st, att) == BackoffBase(st)

Backoff(st, att) == BackoffBase(st) * (att + 1)

\* bug variant: the last pass of the loop is not recognised
IsLastAttempt_OffByOne(att, n) == att = n

IsLastAttempt(att, n) == att = n - 1

AttemptMsg(att, n, err) ==
    [kind |-> "attempt", attempt |-> att + 1, of |-> n, err |-> err]
ExhaustedMsg == [kind |-> "exhausted", attempt |-> 0, of |-> 0, err |-> <<>>]

\* variant: the result of a call that did not raise is thrown away
ReturnsResult_Never(r) == FALSE

\* the call in the try block did not raise: the `return ..., True, None`
\* after it is reached
ReturnsResult(r) == ~r.raised

Running == {u \in units : upc[u] \in {"try", "sleep"}}

\* state of a stage when all its units have been submitted to the pool
Submitted(us, lists) ==
    /\ units = us
    /\ category_names \in
          IF stage = "classify_single" THEN lists ELSE {<<T_UI, T_API>>}
    /\ upc = [u \in units |-> "queued"]
    /\ attempt = [u \in units |-> 0]
    /\ calls = [u \in units |-> 0]
    /\ raised = [u \in units |-> 0]
    /\ llm_failed = [u \in units |-> 0]
    /\ llm_response = [u \in units |-> [got |-> FALSE, text |-> <<>>]]
    /\ last_error = [u \in units |-> <<>>]
    /\ delays = [u \in units |-> <<>>]
    /\ future = [u \in units |-> NoFuture]
    /\ table = [u \in units |-> [value |-> <<>>, category_id |-> 0]]
    /\ all_categories = <<>>
    /\ categories_df = <<>>
    /\ success_count = 0
    /\ error_count = 0
    /\ retry_count = 0
    /\ drained = {}
    /\ cpc = "draining"

\* a pool of several units, or of none, over one category table; max_retries
\* as the callers pass it
PoolRetryArgs == {0, 1, 2}

PoolInit ==
    /\ stage \in Stages
    /\ max_retries \in PoolRetryArgs
    /\ max_workers \in 1..MaxWorkersArg
    /\ \E us \in {1..NumUnits, {}} : Submitted(us, {<<T_UI, T_API>>})

\* one unit alone in the pool, for any max_retries and category table
RetryInit ==
    /\ stage \in Stages
    /\ max_retries \in 0..MaxRetriesArg
    /\ max_workers = 1
    /\ Submitted({1}, CategoryLists)

\* a free worker takes the oldest queued unit and enters the wrapper
WorkerStart(u) ==
    /\ upc[u] = "queued"
    /\ Cardinality(Running) < max_workers
    /\ \A v \in units : v < u => upc[v] # "queued"
    /\ IF max_retries > 0
       THEN /\ upc' = [upc EXCEPT ![u] = "try"]
            /\ future' = future
       ELSE /\ upc' = [upc EXCEPT ![u] = "returned"]
            /\ future' = [future EXCEPT ![u] =
                   [index |-> u, value |-> ExhaustedValue(stage),
                    cats |-> <<>>, success |-> FALSE,
                    error_msg |-> ExhaustedMsg]]
    /\ PoolFrame
    /\ UNCHANGED <<stage, units, max_retries, max_workers, category_names, attempt,
                   calls, raised, llm_failed, llm_response, last_error, delays,
                   table,
                   all_categories, categories_df, success_count, error_count,
                   retry_count, drained, cpc>>

\* one pass of the loop body: call the per-unit function, return or sleep
WorkerAttempt(u) ==
    /\ upc[u] = "try"
    /\ \E out \in LLMOutcomes(stage) :
         LET r == UnitFunction(stage, category_names, out)
         IN  /\ calls' = [calls EXCEPT ![u] = @ + 1]
             /\ raised' = [raised EXCEPT ![u] = IF r.raised THEN @ + 1 ELSE @]
             /\ llm_failed' = [llm_failed EXCEPT ![u] =
                                  IF out.raised THEN @ + 1 ELSE @]
             /\ llm_response' = [llm_response EXCEPT ![u] =
                                    [got |-> ~out.raised,
                                     text |-> IF out.raised THEN <<>>
                                              ELSE out.text]]
             /\ IF ReturnsResult(r)
                THEN /\ future' = [future EXCEPT ![u] =
                            [index |-> u, value |-> r.value, cats |-> r.cats,
                             success |-> TRUE, error_msg |-> NoMsg]]
                     /\ upc' = [upc EXCEPT ![u] = "returned"]
                     /\ UNCHANGED <<last_error, delays>>
                ELSE /\ last_error' = [last_error EXCEPT ![u] = r.err]
                     /\ IF IsLastAttempt(attempt[u], max_retries)
                        THEN /\ future' = [future EXCEPT ![u] =
                                    [index |-> u,
                                     value |-> FailureValue(stage, max_retries,
                                                            r.err),
                                     cats |-> <<>>, success |-> FALSE,
                                     error_msg |-> AttemptMsg(attempt[u],
                                                     max_retries, r.err)]]
                             /\ upc' = [upc EXCEPT ![u] = "returned"]
                             /\ delays' = delays
                        ELSE /\ delays' = [delays EXCEPT ![u] =
                                    Append(@, Backoff(stage, attempt[u]))]
                             /\ upc' = [upc EXCEPT ![u] = "sleep"]
                             /\ future' = future
    /\ PoolFrame
    /\ UNCHANGED <<stage, units, max_retries, max_workers, category_names, attempt,
                   table, all_categories, categories_df, success_count,
                   error_count, retry_count, drained, cpc>>

\* time.sleep returns: next pass of the loop, or the statement after it
WorkerWake(u) ==
    /\ upc[u] = "sleep"
    /\ attempt' = [attempt EXCEPT ![u] = @ + 1]
    /\ IF attempt[u] + 1 < max_retries
       THEN /\ upc' = [upc EXCEPT ![u] = "try"]
            /\ future' = future
       ELSE /\ upc' = [upc EXCEPT ![u] = "returned"]
            /\ future' = [future EXCEPT ![u] =
                   [index |-> u, value |-> ExhaustedValue(stage),
                    cats |-> <<>>, success |-> FALSE,
                    error_msg |-> ExhaustedMsg]]
    /\ PoolFrame
    /\ UNCHANGED <<stage, units, max_retries, max_workers, category_names, calls,
                   raised, llm_failed, llm_response, last_error, delays, table,
                   all_categories,
                   categories_df, success_count, error_count, retry_count,
                   drained, cpc>>

-----------------------------------------------------------------------------
(* The coordinating thread: `for future in as_completed(...)` and the code  *)
(* after the pool is closed                                                 *)

\* categories_df[categories_df['Название'] == category].index[0] + 1, or 0
\* when no row has that name
CategoryId(names, category) ==
    IF \E i \in 1..Len(names) : names[i] = category
    THEN CHOOSE i \in 1..Len(names) :
            names[i] = category /\ \A j \in 1..(i - 1) : names[j] # category
    ELSE 0

\* variant: keep='last'
RECURSIVE DropDuplicates_KeepLast(_)
DropDuplicates_KeepLast(rows) ==
    IF rows = <<>> THEN <<>>
    ELSE IF \E i \in 2..Len(rows) : rows[i].name = rows[1].name
         THEN DropDuplicates_KeepLast(Tail(rows))
         ELSE <<Head(rows)>> \o DropDuplicates_KeepLast(Tail(rows))

\* DataFrame.drop_duplicates(subset=['Название'], keep='first')
RECURSIVE DropDuplicates(_)
DropDuplicates(rows) ==
    IF rows = <<>> THEN <<>>
    ELSE LET init == SubSeq(rows, 1, Len(rows) - 1)
             last == rows[Len(rows)]
         IN  IF \E i \in 1..Len(init) : init[i].name = last.name
             THEN DropDuplicates(init)
             ELSE Append(DropDuplicates(init), last)

CountRetry(msg) == IF msg.kind = "attempt" THEN 1 ELSE 0

\* variant: every consumed future counts as a success
CountSuccess_Any(f) == 1

\* `if success: ... success_count += 1`
CountSuccess(f) == IF f.success THEN 1 ELSE 0

\* variant: a future is handed over as soon as its call has started
Completed_Started(u) == upc[u] # "queued"

\* as_completed yields a future when its call has returned
Completed(u) == upc[u] = "returned"

CoordDrain(u) ==
    /\ cpc = "draining"
    /\ Completed(u)
    /\ u \notin drained
    /\ drained' = drained \cup {u}
    /\ LET f == future[u]
       IN  CASE stage = "classify_single" ->
                  /\ table' = [table EXCEPT ![f.index] =
                        [value |-> f.value,
                         category_id |->
                            IF CategoryId(category_names, f.value) # 0
                            THEN CategoryId(category_names, f.value)
                            ELSE @.category_id]]
                  /\ success_count' = success_count + CountSuccess(f)
                  /\ error_count' = error_count + (IF f.success THEN 0 ELSE 1)
                  /\ retry_count' = retry_count +
                        (IF f.success THEN 0 ELSE CountRetry(f.error_msg))
                  /\ UNCHANGED <<all_categories, cpc>>
             [] stage = "summarize" ->
                  /\ table' = [table EXCEPT ![f.index] =
                        [value |-> f.value, category_id |-> @.category_id]]
                  /\ success_count' = success_count + CountSuccess(f)
                  /\ error_count' = error_count + (IF f.success THEN 0 ELSE 1)
                  /\ retry_count' = retry_count +
                        (IF f.success THEN 0 ELSE CountRetry(f.error_msg))
                  /\ UNCHANGED <<all_categories, cpc>>
             [] stage = "category" ->
                  /\ all_categories' =
                        IF f.success THEN all_categories \o f.cats
                        ELSE all_categories
                  /\ success_count' = success_count + CountSuccess(f)
                  /\ error_count' = error_count + (IF f.success THEN 0 ELSE 1)
                  /\ retry_count' = retry_count +
                        (IF f.success THEN 0 ELSE CountRetry(f.error_msg))
                  /\ UNCHANGED <<table, cpc>>
             [] stage = "classify_batch" ->
                  \* apply_batch_classifications receives the response text,
                  \* a str, and calls .items() on it: AttributeError
                  /\ cpc' = IF f.success THEN "crashed" ELSE cpc
                  /\ error_count' = error_count + (IF f.success THEN 0 ELSE 1)
                  /\ retry_count' = retry_count +
                        (IF f.success THEN 0 ELSE CountRetry(f.error_msg))
                  /\ UNCHANGED <<table, all_categories, success_count>>
    /\ PoolFrame
    /\ UNCHANGED <<stage, units, max_retries, max_workers, category_names, upc,
                   attempt, calls, raised, llm_failed, llm_response, last_error,
                   delays, future,
                   categories_df>>

\* variant: building the table from an empty list raises
CoordFinish_NeedsRows ==
    /\ cpc = "draining"
    /\ drained = units
    /\ cpc' = IF \/ stage = "category" /\ all_categories = <<>>
                 \/ stage = "summarize" /\ Cardinality(units) = 0
              THEN "crashed" ELSE "done"
    /\ categories_df' =
          IF stage = "category" THEN DropDuplicates(all_categories)
          ELSE categories_df
    /\ PoolFrame
    /\ UNCHANGED <<stage, units, max_retries, max_workers, category_names, upc,
                   attempt, calls, raised, llm_failed, llm_response, last_error,
                   delays, future,
                   table, all_categories, success_count, error_count,
                   retry_count, drained>>

\* the pool is closed and the stage builds what it returns.  For the category
\* stage: pd.DataFrame(all_categories), then drop_duplicates, which returns a
\* copy of an empty frame before it looks at `subset`; a failed save is
\* reported by safe_save_excel as False and the table is returned all the same.
\* For the summarizer: the statistics divide success_count by len(tasks_df),
\* a ZeroDivisionError when no task was given
CoordFinish ==
    /\ cpc = "draining"
    /\ drained = units
    /\ cpc' = IF stage = "summarize" /\ Cardinality(units) = 0
              THEN "crashed" ELSE "done"
    /\ categories_df' =
          IF stage = "category" THEN DropDuplicates(all_categories)
          ELSE categories_df
    /\ PoolFrame
    /\ UNCHANGED <<stage, units, max_retries, max_workers, category_names, upc,
                   attempt, calls, raised, llm_failed, llm_response, last_error,
                   delays, future,
                   table, all_categories, success_count, error_count,
                   retry_count, drained>>

PoolNext ==
    \/ \E u \in units : WorkerStart(u)
    \/ \E u \in units : WorkerAttempt(u)
    \/ \E u \in units : WorkerWake(u)
    \/ \E u \in units : CoordDrain(u)
    \/ CoordFinish

PoolOff ==
    /\ stage = "off"
    /\ units = {}
    /\ max_retries = 0
    /\ max_workers = 0
    /\ category_names = <<>>
    /\ upc = <<>>
    /\ attempt = <<>>
    /\ calls = <<>>
    /\ raised = <<>>
    /\ llm_failed = <<>>
    /\ llm_response = <<>>
    /\ last_error = <<>>
    /\ delays = <<>>
    /\ future = <<>>
    /\ table = <<>>
    /\ all_categories = <<>>
    /\ categories_df = <<>>
    /\ success_count = 0
    /\ error_count = 0
    /\ retry_count = 0
    /\ drained = {}
    /\ cpc = "off"

-----------------------------------------------------------------------------
(* Properties of the retry wrappers *)

PoolTypeOK ==
    /\ cpc \in {"draining", "done", "crashed"}
    /\ \A u \in units : upc[u] \in {"queued", "try", "sleep", "returned"}

\* the wrapper of unit u has returned after every one of its attempts raised
AllAttemptsRaised(u) ==
    upc[u] = "returned" /\ calls[u] >= 1 /\ raised[u] = calls[u]

\* C2: for max_retries >= 1, a unit whose per-unit function raises on every
\* attempt is attempted exactly max_retries times; the wrapper then returns
\* a failure tuple (success false) that carries the message of the last
\* error, and no exception leaves the wrapper.
C2_RetryCount ==
    /\ \A u \in units : upc[u] \in {"queued", "try", "sleep", "returned"}
    /\ \A u \in units :
         (max_retries >= 1 /\ AllAttemptsRaised(u)) =>
            /\ calls[u] = max_retries
            /\ future[u].success = FALSE
            /\ future[u].index = u
            /\ future[u].error_msg.kind = "attempt"
            /\ future[u].error_msg.attempt = max_retries
            /\ future[u].error_msg.of = max_retries
            /\ future[u].error_msg.err = last_error[u]

C2_Witness ==
    \E u \in units :
        /\ max_retries >= 2
        /\ AllAttemptsRaised(u)
        /\ calls[u] = max_retries
        /\ future[u].success = FALSE

\* C3: after the k-th failed attempt (k = 1 .. max_retries-1) the wrapper
\* sleeps backoff_base * k, so the delays never decrease, and it does not
\* sleep after the final failed attempt.
C3_BackoffSchedule ==
    \A u \in units :
        /\ \A k \in 1..Len(delays[u]) : delays[u][k] = BackoffBase(stage) * k
        /\ \A k \in 1..(Len(delays[u]) - 1) : delays[u][k] <= delays[u][k + 1]
        /\ Len(delays[u]) <= raised[u]
        /\ upc[u] = "sleep" => Len(delays[u]) = raised[u]
        /\ (max_retries >= 1 /\ AllAttemptsRaised(u)) =>
              Len(delays[u]) = max_retries - 1

C3_Witness ==
    \E u \in units :
        /\ AllAttemptsRaised(u)
        /\ Len(delays[u]) >= 2
        /\ delays[u][2] = 2 * delays[u][1]

\* C4 (as claimed): in the summarizer a failed model call is retried, and an
\* error string is recorded as a task's summary only after all max_retries
\* attempts have failed.
C4_SummarizerRetriesBeforeRecording ==
    LET IsErrorSummary(v) ==
            \/ StartsWith(v, ErrorText.sum_prefix)
            \/ StartsWith(v, ErrorText.sum_fail)
            \/ v = ErrorText.summary
    IN  stage = "summarize" =>
            \A u \in drained :
                IsErrorSummary(table[u].value) => llm_failed[u] = max_retries

\* C11: for a non-empty category list and any response text, the single-task
\* classifier returns the response, stripped of surrounding whitespace, when
\* that equals a known name; otherwise the first category in list order
\* whose name contains, or is contained in, the stripped response without
\* regard to case; otherwise the first category.  The returned name is
\* always a member of the list.
C11_ResolvesStripped ==
    \A u \in units :
        (stage = "classify_single" /\ upc[u] = "returned" /\ future[u].success) =>
            LET names == category_names
                r == Strip(llm_response[u].text)
                v == future[u].value
                near(i) == \/ Contains(Lower(names[i]), Lower(r))
                           \/ Contains(Lower(r), Lower(names[i]))
                known == {names[i] : i \in 1..Len(names)}
                nearIdx == {i \in 1..Len(names) : near(i)}
            IN  /\ v \in known
                /\ r \in known => v = r
                /\ (r \notin known /\ nearIdx # {}) =>
                       \E i \in nearIdx : /\ v = names[i]
                                          /\ \A j \in nearIdx : i <= j
                /\ (r \notin known /\ nearIdx = {}) => v = names[1]

\* C11 as stated: the same rule applied to the response text as returned
C11_ResolvesLiteral ==
    \A u \in units :
        (stage = "classify_single" /\ upc[u] = "returned" /\ future[u].success) =>
            LET names == category_names
                r == llm_response[u].text
                v == future[u].value
                near(i) == \/ Contains(Lower(names[i]), Lower(r))
                           \/ Contains(Lower(r), Lower(names[i]))
                known == {names[i] : i \in 1..Len(names)}
                nearIdx == {i \in 1..Len(names) : near(i)}
            IN  /\ v \in known
                /\ r \in known => v = r
                /\ (r \notin known /\ nearIdx # {}) =>
                       \E i \in nearIdx : /\ v = names[i]
                                          /\ \A j \in nearIdx : i <= j
                /\ (r \notin known /\ nearIdx = {}) => v = names[1]

\* a response that matches the second category only once stripped
C11_Witness ==
    \E u \in units :
        /\ stage = "classify_single"
        /\ upc[u] = "returned"
        /\ future[u].success
        /\ category_names = <<T_UI, T_API>>
        /\ llm_response[u].text = <<"p", "\n">>
        /\ future[u].value = T_API

\* C16: the candidate list the generator returns has no two categories with
\* the same name; for a name produced more than once the record kept is its
\* first occurrence in merge order, and every distinct name is kept.
C16_FirstOccurrenceKept ==
    (stage = "category" /\ cpc = "done") =>
        /\ \A i, j \in 1..Len(categories_df) :
              categories_df[i].name = categories_df[j].name => i = j
        /\ \A i \in 1..Len(categories_df) :
              \E m \in 1..Len(all_categories) :
                  /\ all_categories[m] = categories_df[i]
                  /\ \A n \in 1..(m - 1) :
                        all_categories[n].name # categories_df[i].name
        /\ \A m \in 1..Len(all_categories) :
              \E i \in 1..Len(categories_df) :
                  categories_df[i].name = all_categories[m].name

\* two batches produced the same name with different descriptions
C16_Witness ==
    /\ stage = "category"
    /\ cpc = "done"
    /\ \E m, n \in 1..Len(all_categories) :
          /\ m < n
          /\ all_categories[m].name = all_categories[n].name
          /\ all_categories[m].description # all_categories[n].description
    /\ Len(categories_df) = 2

\* C17: for fixed per-unit results the merged tables do not depend on the
\* order in which the units complete: the candidate table of the category
\* generator has the rows (name, description, keywords, issue types) it has
\* when the batches complete in batch order, whatever the row order,
\* and the classifier and the summarizer hold, for every task, the value of
\* that task's own unit.
C17_CompletionOrderIndependent ==
    cpc = "done" =>
        LET n == Cardinality(units)
            in_order[k \in 0..n] ==
                IF k = 0 THEN <<>>
                ELSE in_order[k - 1]
                     \o (IF future[k].success THEN future[k].cats ELSE <<>>)
            rows(t) == {t[i] : i \in 1..Len(t)}
        IN  /\ stage = "category" =>
                  rows(categories_df) = rows(DropDuplicates(in_order[n]))
            /\ stage \in {"classify_single", "summarize"} =>
                  \A u \in units : table[u].value = future[u].value

\* C18: a batch of the category generator whose wrapper exhausts its retries
\* returns a failure with no category and the run goes on; the merged list
\* is the concatenation, in some order, of the lists of the batches that
\* returned success, each whole and unchanged, and the count of succeeded
\* batches is the number of consumed futures that carry success.
C18_FailedBatchIsolated ==
    stage = "category" =>
        LET ok == {u \in drained : future[u].success}
            n == Cardinality(ok)
            orders == {o \in [1..n -> ok] :
                          \A i, j \in 1..n : o[i] = o[j] => i = j}
            merged(o) ==
                LET acc[k \in 0..n] ==
                        IF k = 0 THEN <<>>
                        ELSE acc[k - 1] \o future[o[k]].cats
                IN  acc[n]
        IN  /\ cpc # "crashed"
            /\ \A u \in units :
                  AllAttemptsRaised(u) =>
                      ~future[u].success /\ future[u].cats = <<>>
            /\ \E o \in orders : all_categories = merged(o)
            /\ success_count = n
            /\ error_count = Cardinality(drained) - n

\* a finished run in which one batch failed on both attempts and the other
\* contributed its categories
C18_Witness ==
    /\ stage = "category"
    /\ cpc = "done"
    /\ max_retries = 2
    /\ \E u, v \in units :
          /\ AllAttemptsRaised(u) /\ calls[u] = 2
          /\ future[v].success /\ Len(future[v].cats) = 2
    /\ success_count = 1
    /\ Len(categories_df) = 2

\* C28: a step that changes the task table, the category list, the category
\* table or the counters of a stage is a step of the coordinating thread: no
\* worker moves in it, and either it consumes exactly one future whose call
\* has returned and writes no row but that unit's, or it is the step after
\* the last future that builds the category table.
C28_SingleWriter ==
    [][ LET written == {u \in units : table'[u] # table[u]}
        IN  (\/ written # {}
             \/ all_categories' # all_categories
             \/ categories_df' # categories_df
             \/ <<success_count, error_count, retry_count>>' #
                    <<success_count, error_count, retry_count>>
             \/ drained' # drained) =>
                /\ cpc = "draining"
                /\ <<upc, attempt, calls, future, delays, last_error>>' =
                       <<upc, attempt, calls, future, delays, last_error>>
                /\ \/ /\ categories_df' = categories_df
                      /\ \E u \in units \ drained :
                            /\ upc[u] = "returned"
                            /\ future[u].index = u
                            /\ drained' = drained \cup {u}
                            /\ written \subseteq {u}
                   \/ /\ categories_df' # categories_df
                      /\ drained = units
                      /\ cpc' = "done"
                      /\ written = {}
                      /\ all_categories' = all_categories
      ]_vars

\* the coordinator has written the row of one unit while a worker is still
\* inside the wrapper for another
C28_Witness ==
    \E u, v \in units :
        /\ u \in drained
        /\ table[u].value # <<>>
        /\ upc[v] \in {"try", "sleep"}

\* C31: in batch mode through the pool, a batch whose model call succeeded
\* with a valid `1;1` line has the first category and its id written to the
\* row of its task, and the coordinating loop never raises.
C31_BatchModeApplies ==
    stage = "classify_batch" =>
        /\ cpc # "crashed"
        /\ \A u \in drained :
              (future[u].success /\ future[u].value = <<"1", ";", "1">>) =>
                  /\ table[u].value = category_names[1]
                  /\ table[u].category_id = 1

\* C33: while the wrapper of a unit is running, every attempt so far has
\* raised; when attempt j is the first that does not raise, the wrapper has
\* made exactly j attempts (j <= max_retries) and j - 1 waits, returns
\* success with what attempt j produced, and makes no call or wait after it.
C33_StopsAtFirstSuccess ==
    \A u \in units :
        /\ raised[u] <= calls[u]
        /\ calls[u] <= raised[u] + 1
        /\ upc[u] \in {"try", "sleep"} => raised[u] = calls[u]
        /\ calls[u] = raised[u] + 1 =>
              /\ upc[u] = "returned"
              /\ calls[u] <= max_retries
              /\ attempt[u] = raised[u]
              /\ Len(delays[u]) = raised[u]
              /\ future[u].success
              /\ future[u].index = u
              /\ future[u].error_msg = NoMsg
              /\ llm_response[u].got =>
                    LET r == UnitFunction(stage, category_names,
                                 [raised |-> FALSE,
                                  text |-> llm_response[u].text])
                    IN  future[u].value = r.value /\ future[u].cats = r.cats

\* the second of three allowed attempts was the first not to raise
C33_Witness ==
    \E u \in units :
        /\ max_retries = 3
        /\ upc[u] = "returned"
        /\ calls[u] = 2
        /\ raised[u] = 1
        /\ future[u].success
        /\ delays[u] = <<BackoffBase(stage)>>

\* C34: in the category generator a batch is attempted again only after the
\* model call raised; a batch whose call returned a text without a
\* well-formed category line (a header, an empty line and a comment) is over
\* with that request, carries success and no category, and is counted among
\* the succeeded batches.
C34_ParseFailureNotRetried ==
    stage = "category" =>
        LET empty_text == JoinLines(<<CatLine.header, <<>>, CatLine.comment>>)
            unparsed == {u \in units : /\ llm_response[u].got
                                       /\ llm_response[u].text = empty_text}
        IN  /\ \A u \in units : calls[u] <= llm_failed[u] + 1
            /\ \A u \in unparsed :
                  /\ upc[u] = "returned"
                  /\ calls[u] = llm_failed[u] + 1
                  /\ future[u].success
                  /\ future[u].cats = <<>>
                  /\ future[u].error_msg = NoMsg
            /\ success_count = Cardinality({u \in drained : future[u].success})
            /\ drained \subseteq unparsed => all_categories = <<>>

\* a finished run in which one batch was answered with such a text on its
\* first call and another contributed a category
C34_Witness ==
    /\ stage = "category"
    /\ cpc = "done"
    /\ \E u, v \in units :
          /\ calls[u] = 1
          /\ llm_response[u].text =
                JoinLines(<<CatLine.header, <<>>, CatLine.comment>>)
          /\ future[u].success
          /\ future[v].cats # <<>>
    /\ success_count = 2

\* C35: in single-task mode the row of a consumed unit that ran out of
\* attempts holds the failure marker and category_id 0; the row of every
\* other consumed unit holds the category its own wrapper returned and that
\* category's position in the category table; an unconsumed unit's row is
\* as it was created.
C35_ExhaustedLeavesMarker ==
    stage = "classify_single" =>
        \A u \in units :
            IF u \notin drained
            THEN table[u] = [value |-> <<>>, category_id |-> 0]
            ELSE IF ~future[u].success
            THEN table[u] = [value |-> <<"!", "c">>, category_id |-> 0]
            ELSE /\ table[u].value = future[u].value
                 /\ table[u].category_id \in 1..Len(category_names)
                 /\ category_names[table[u].category_id] = table[u].value

\* a finished run: one task exhausted two attempts, the other was classified
C35_Witness ==
    /\ stage = "classify_single"
    /\ cpc = "done"
    /\ max_retries = 2
    /\ \E u, v \in units :
          /\ raised[u] = 2
          /\ table[u].value = ErrorText.classification
          /\ table[v].value = T_API
          /\ table[v].category_id = 2

\* what a finished harness run looks like: every unit made at most
\* max_retries calls and was consumed, and the two counters add up to the
\* number of submitted units
RunEnded ==
    /\ cpc = "done"
    /\ drained = units
    /\ \A u \in units : upc[u] = "returned" /\ calls[u] <= max_retries
    /\ success_count + error_count = Cardinality(units)

\* C37: when every model call eventually returns or raises and every sleep
\* ends, every harness run comes to its end with each unit called at most
\* max_retries times, every submitted unit consumed, and succeeded + failed
\* equal to the number of submitted units.
C37_HarnessTerminates == <>RunEnded

\* the same for the three stages whose loop body only counts and stores,
\* given at least one unit
C37_CountingStagesTerminate ==
    (stage # "classify_batch" /\ units # {}) => <>RunEnded

\* every unit is consumed at most once: a step that consumes u finds it
\* unconsumed, and nothing is ever taken back
C37_MergedOnce ==
    [][/\ drained \subseteq drained'
       /\ Cardinality(drained') <= Cardinality(drained) + 1
       /\ success_count' + error_count' - (success_count + error_count)
             \in {0, Cardinality(drained') - Cardinality(drained)}]_vars

\* C38: when every batch of the category generator has been consumed and
\* none of them gave a category, because it ran out of attempts or because
\* its response held no category row, the merged list is empty, nothing was
\* raised, the stage can finish, and the table it returns is empty.
C38_TotalFailureNotFatal ==
    (/\ stage = "category"
     /\ drained = units
     /\ \A u \in units : ~future[u].success \/ future[u].cats = <<>>) =>
        /\ all_categories = <<>>
        /\ cpc \in {"draining", "done"}
        /\ cpc = "draining" => ENABLED CoordFinish
        /\ cpc = "done" => categories_df = <<>>
        /\ success_count + error_count = Cardinality(units)

\* a finished run of two batches: every attempt of both raised
C38_Witness ==
    /\ stage = "category"
    /\ cpc = "done"
    /\ max_retries = 2
    /\ \A u \in units : raised[u] = 2 /\ ~future[u].success
    /\ error_count = Cardinality(units)
    /\ success_count = 0
    /\ categories_df = <<>>

\* the summarizer's half of C39: the summarizer stage given no task sends no
\* model request, raises nothing and finishes
C39_EmptySummarizerHandled ==
    (stage = "summarize" /\ units = {}) =>
        /\ calls = <<>>
        /\ cpc # "crashed"

-----------------------------------------------------------------------------
(* create_final_categories: the category consolidator *)

CandidateLetters == <<"A", "B", "C", "D", "E">>

\* a candidate table of n rows with distinct names, as the generator's
\* drop_duplicates leaves it
CandidateTable(n) ==
    [i \in 1..n |->
        [name |-> <<CandidateLetters[i]>>, description |-> <<"d">>,
         keywords |-> <<"k">>, issue_types |-> <<"t">>]]

\* lines a consolidation response is made of
ConsolidationResponses ==
    {JoinLines(ls) :
        ls \in SeqsUpTo({CatLine.a, CatLine.a2, CatLine.b, CatLine.short,
                         CatLine.header, CatLine.one, <<>>},
                        MaxResponseLines)}

parse_consolidated_categories(response_text) ==
    LET rows == CategoryRows(Split(Strip(response_text), "\n"), 2)
    IN  [i \in 1..Len(rows) |->
            [name |-> rows[i][1], description |-> rows[i][2]]]

\* bug variant: consolidate also when the table already has target_count rows
NeedsConsolidation_AtTarget(n, target) == n >= target

\* `if len(categories_df) > target_count`
NeedsConsolidation(n, target) == n > target

\* bug variant: a shorter list than asked for is accepted
AcceptConsolidation_AtMost(n, target) == n <= target

\* `if len(consolidated_categories) == target_count`
AcceptConsolidation(n, target) == n = target

\* bug variant: ask the model again when the row count is wrong
AfterDecision_Retry(accepted) == IF accepted THEN "done" ELSE "start"

\* both branches of the count test fall through to the save and the return
AfterDecision(accepted) == "done"

ConsInit ==
    /\ candidates \in {CandidateTable(n) : n \in 0..MaxCandidates}
    /\ target_count \in 0..MaxTarget
    /\ requests = 0
    /\ consolidated_response = <<>>
    /\ final_categories_df = <<>>
    /\ final_note = "none"
    /\ final_file = "none"
    /\ kpc = "start"

\* entry of create_final_categories up to the model request, or the whole
\* function when no consolidation is needed
ConsolidateStart ==
    /\ kpc = "start"
    /\ IF NeedsConsolidation(Len(candidates), target_count)
       THEN /\ requests' = requests + 1
            /\ kpc' = "waiting"
            /\ UNCHANGED <<final_categories_df, final_note, final_file>>
       ELSE /\ final_categories_df' = candidates
            /\ final_note' = "not_needed"
            /\ final_file' \in {"final_categories.xlsx", "none"}
            /\ kpc' = "done"
            /\ UNCHANGED requests
    /\ ConsFrame
    /\ UNCHANGED <<candidates, target_count, consolidated_response>>

\* the model request returns or raises; parse, count test, save, return
ConsolidateReceive ==
    /\ kpc = "waiting"
    /\ \E out \in {[raised |-> TRUE, text |-> e] : e \in Errors}
                  \cup {[raised |-> FALSE, text |-> t] :
                            t \in ConsolidationResponses} :
         IF out.raised
         THEN /\ final_categories_df' = candidates
              /\ final_note' = "error"
              /\ final_file' \in {"final_categories.xlsx", "none"}
              /\ kpc' = "done"
              /\ UNCHANGED consolidated_response
         ELSE LET consolidated == parse_consolidated_categories(out.text)
                  accepted == AcceptConsolidation(Len(consolidated),
                                                  target_count)
              IN  /\ consolidated_response' = out.text
                  /\ final_categories_df' =
                        IF accepted THEN consolidated ELSE candidates
                  /\ final_note' =
                        IF accepted THEN "consolidated" ELSE "mismatch"
                  /\ kpc' = AfterDecision(accepted)
                  /\ IF kpc' = "done"
                     THEN final_file' \in {"final_categories.xlsx", "none"}
                     ELSE final_file' = final_file
    /\ ConsFrame
    /\ UNCHANGED <<candidates, target_count, requests>>

ConsNext ==
    \/ ConsolidateStart
    \/ ConsolidateReceive

ConsOff ==
    /\ candidates = <<>>
    /\ target_count = 0
    /\ requests = 0
    /\ consolidated_response = <<>>
    /\ final_categories_df = <<>>
    /\ final_note = "off"
    /\ final_file = "none"
    /\ kpc = "off"

-----------------------------------------------------------------------------
(* Properties of the consolidator *)

\* C5: create_final_categories returns either exactly target_count rows
\* parsed from the response (name and description only) or the candidate
\* table unchanged, whatever the model does; never another size, never a
\* mix of candidate and consolidated rows.
C5_AllOrNothing ==
    kpc = "done" =>
        \/ final_categories_df = candidates
        \/ /\ final_note = "consolidated"
           /\ Len(final_categories_df) = target_count
           /\ final_categories_df =
                 parse_consolidated_categories(consolidated_response)
           /\ \A i \in 1..Len(final_categories_df) :
                 DOMAIN final_categories_df[i] = {"name", "description"}

C5_Witness ==
    /\ kpc = "done"
    /\ final_note = "consolidated"
    /\ target_count = 2
    /\ Len(candidates) = 3
    /\ Len(final_categories_df) = 2
    /\ final_categories_df # candidates

\* C6: with len(candidates) <= target_count the candidates are returned
\* unchanged and no model request is issued.
C6_NoOpWhenSmall ==
    (kpc # "start" /\ Len(candidates) <= target_count) =>
        /\ kpc = "done"
        /\ requests = 0
        /\ final_categories_df = candidates
        /\ final_note = "not_needed"

C6_Witness ==
    /\ kpc = "done"
    /\ Len(candidates) = 2
    /\ target_count = 2
    /\ requests = 0
    /\ final_categories_df = candidates

\* C7: one consolidation run issues at most one model request; a row count
\* other than target_count ends the run with the candidate table, without a
\* second request.
C7_NeverRetried ==
    /\ requests <= 1
    /\ final_note = "mismatch" =>
          /\ kpc = "done"
          /\ requests = 1
          /\ final_categories_df = candidates

C7_Witness ==
    /\ kpc = "done"
    /\ final_note = "mismatch"
    /\ requests = 1
    /\ Len(parse_consolidated_categories(consolidated_response)) = 1
    /\ target_count = 2

\* C8 (as claimed): on the accepted path the returned list has no two
\* categories with the same name.
C8_UniqueFinalNames ==
    (kpc = "done" /\ final_note = "consolidated") =>
        \A i, j \in 1..Len(final_categories_df) :
            final_categories_df[i].name = final_categories_df[j].name => i = j

-----------------------------------------------------------------------------
(* parse_classification_response: `task_index;category_index` lines *)

\* key of the task in row i of a task table
TaskKey(i) == 100 + i

LineSkip == [kind |-> "skip", rec |-> <<>>, exc |-> "none"]
LineError(e) == [kind |-> "exception", rec |-> <<>>, exc |-> e]
LineRecord(r) == [kind |-> "record", rec |-> r, exc |-> "none"]

\* seq[idx] of Python: a negative idx counts from the end, an idx outside
\* the sequence is an IndexError
PyIndex(seq, idx) ==
    IF 0 <= idx /\ idx < Len(seq) THEN [ok |-> TRUE, val |-> seq[idx + 1]]
    ELSE IF idx < 0 /\ 0 - idx <= Len(seq)
         THEN [ok |-> TRUE, val |-> seq[Len(seq) + idx + 1]]
         ELSE [ok |-> FALSE, val |-> 0]

\* bug variant: the lower limit of the index test is missing
InRange_NoLowerLimit(idx, n) == idx < n

\* `0 <= idx < len(...)`
InRange(idx, n) == 0 <= idx /\ idx < n

\* what the body of the loop does with one line of the response
ParseIndexLine(raw, batch, names) ==
    LET line == Strip(raw)
        parts == Split(line, ";")
    IN  IF line = <<>> \/ ~Contains(line, <<";">>) THEN LineSkip
        ELSE IF Len(parts) < 2 THEN LineSkip
        ELSE LET t == ParseInt(parts[1])
                 c == ParseInt(parts[2])
                 task_idx == t.val - 1
                 category_idx == c.val - 1
             IN  IF ~t.ok \/ ~c.ok THEN LineError("ValueError")
                 ELSE IF /\ InRange(task_idx, Len(batch))
                         /\ InRange(category_idx, Len(names))
                      THEN IF /\ PyIndex(batch, task_idx).ok
                              /\ PyIndex(names, category_idx).ok
                           THEN LineRecord(
                                  [key |-> PyIndex(batch, task_idx).val,
                                   category |-> PyIndex(names, category_idx).val,
                                   category_id |-> category_idx + 1])
                           ELSE LineError("IndexError")
                      ELSE LineSkip

\* `except (ValueError, IndexError)`
Caught(exc) == exc \in {"ValueError", "IndexError"}

ParseOk(results) == [raised |-> FALSE, results |-> results]
ParseRaised == [raised |-> TRUE, results |-> <<>>]

RECURSIVE ParseIndexLines(_, _, _, _)
ParseIndexLines(lines, batch, names, results) ==
    IF lines = <<>> THEN ParseOk(results)
    ELSE LET o == ParseIndexLine(Head(lines), batch, names)
         IN  IF o.kind = "record"
             THEN ParseIndexLines(Tail(lines), batch, names,
                                  Append(results, o.rec))
             ELSE IF o.kind = "exception" /\ ~Caught(o.exc)
                  THEN ParseRaised
                  ELSE ParseIndexLines(Tail(lines), batch, names, results)

parse_classification_response(response_text, batch, names) ==
    ParseIndexLines(Split(Strip(response_text), "\n"), batch, names, <<>>)

\* lines an index-line response is made of
IndexLine ==
    [p11 |-> <<"1", ";", "1">>,
     p12 |-> <<"1", ";", "2">>,
     p21 |-> <<" ", "2", " ", ";", " ", "1">>,
     p22 |-> <<"+", "2", ";", "2", ";", "9">>,
     p31 |-> <<"3", ";", "1">>,
     p13 |-> <<"1", ";", "3">>,
     p01 |-> <<"0", ";", "1">>,
     p10 |-> <<"1", ";", "0">>,
     neg |-> <<"-", "1", ";", "1">>,
     negcat |-> <<"2", ";", "-", "1">>,
     x1 |-> <<"x", ";", "1">>,
     p1x |-> <<"1", ";", "2", "x">>,
     empty |-> <<"1", ";">>,
     nosep |-> <<"1", "2">>,
     big |-> <<"1", "0", ";", "1">>]

\* lines of the responses given to classify_all_tasks
BatchResponses ==
    {JoinLines(ls) :
        ls \in SeqsUpTo({IndexLine.p11, IndexLine.p22, IndexLine.p31,
                         IndexLine.x1},
                        MaxResponseLines)}

TaskTable(n) == [i \in 1..n |-> TaskKey(i)]

ParseInit ==
    /\ pr_lines \in SeqsUpTo({IndexLine[f] : f \in DOMAIN IndexLine}
                                  \cup {<<>>},
                              MaxResponseLines)
    /\ pr_batch \in {TaskTable(n) : n \in 1..MaxBatchSize}
    /\ pr_categories \in CategoryLists
    /\ pr_out = ParseOk(<<>>)
    /\ ppc = "input"

ParseResponse ==
    /\ ppc = "input"
    /\ pr_out' = parse_classification_response(JoinLines(pr_lines), pr_batch,
                                               pr_categories)
    /\ ppc' = "parsed"
    /\ ParseFrame
    /\ UNCHANGED <<pr_lines, pr_batch, pr_categories>>

ParseOff ==
    /\ pr_lines = <<>>
    /\ pr_batch = <<>>
    /\ pr_categories = <<>>
    /\ pr_out = ParseOk(<<>>)
    /\ ppc = "off"

-----------------------------------------------------------------------------
(* classify_all_tasks of src/task_classifier.py: sequential batches *)

Min(a, b) == IF a < b THEN a ELSE b

\* tasks_df.copy() with the three new columns
UnclassifiedTable(keys) ==
    [i \in 1..Len(keys) |->
        [key |-> keys[i], assigned_category |-> <<>>, category_id |-> 0]]

\* classified_df.loc[classified_df['key'] == result['key'], ...] = ...
ApplyResult(df, result) ==
    [i \in 1..Len(df) |->
        IF df[i].key = result.key
        THEN [key |-> df[i].key, assigned_category |-> result.category,
              category_id |-> result.category_id]
        ELSE df[i]]

RECURSIVE ApplyResults(_, _)
ApplyResults(df, results) ==
    IF results = <<>> THEN df
    ELSE ApplyResults(ApplyResult(df, Head(results)), Tail(results))

BatchInit ==
    /\ tasks_df \in {TaskTable(n) : n \in 0..MaxTasks}
    /\ b_categories \in CategoryLists
    /\ batch_size \in 1..MaxBatchSize
    /\ next_i = 0
    /\ all_classifications = <<>>
    /\ classified_df = UnclassifiedTable(tasks_df)
    /\ failed_batches = 0
    /\ bpc = "loop"

\* one pass of the batch loop: request, parse, extend all_classifications;
\* an exception anywhere in the pass skips the batch
ClassifyBatch ==
    /\ bpc = "loop"
    /\ next_i < Len(tasks_df)
    /\ LET tasks_batch ==
              SubSeq(tasks_df, next_i + 1,
                     Min(next_i + batch_size, Len(tasks_df)))
       IN  \E out \in {[raised |-> TRUE, text |-> e] : e \in Errors}
                      \cup {[raised |-> FALSE, text |-> t] :
                                t \in BatchResponses} :
             LET parsed == parse_classification_response(out.text, tasks_batch,
                                                         b_categories)
             IN  IF out.raised \/ parsed.raised
                 THEN /\ failed_batches' = failed_batches + 1
                      /\ UNCHANGED all_classifications
                 ELSE /\ all_classifications' =
                            all_classifications \o parsed.results
                      /\ UNCHANGED failed_batches
    /\ next_i' = next_i + batch_size
    /\ BatchFrame
    /\ UNCHANGED <<tasks_df, b_categories, batch_size, classified_df, bpc>>

\* after the loop: write the collected results into the table and return it
ApplyClassifications ==
    /\ bpc = "loop"
    /\ next_i >= Len(tasks_df)
    /\ classified_df' = ApplyResults(classified_df, all_classifications)
    /\ bpc' = "done"
    /\ BatchFrame
    /\ UNCHANGED <<tasks_df, b_categories, batch_size, next_i,
                   all_classifications, failed_batches>>

BatchNext ==
    \/ ClassifyBatch
    \/ ApplyClassifications

BatchOff ==
    /\ tasks_df = <<>>
    /\ b_categories = <<>>
    /\ batch_size = 0
    /\ next_i = 0
    /\ all_classifications = <<>>
    /\ classified_df = <<>>
    /\ failed_batches = 0
    /\ bpc = "off"

-----------------------------------------------------------------------------
(* Properties of the index-line batch classification *)

\* C9 (as claimed): after index-line batch classification every task
\* without a valid line has the fallback assignment (first category), every
\* task with a valid line has a parsed category, and no task is left
\* without a category.
C9_UnansweredGetFallback ==
    LET AnsweredKeys ==
            {all_classifications[i].key : i \in DOMAIN all_classifications}
    IN  bpc = "done" =>
            \A i \in 1..Len(classified_df) :
                /\ classified_df[i].assigned_category # <<>>
                /\ classified_df[i].key \notin AnsweredKeys =>
                      /\ classified_df[i].assigned_category = b_categories[1]
                      /\ classified_df[i].category_id = 1

\* the (task_index, category_index) a line of IndexLine spells, <<0, 0>>
\* for the lines that spell no pair of numbers
SpelledPair(line) ==
    CASE line = IndexLine.p11 -> <<1, 1>> [] line = IndexLine.p12 -> <<1, 2>>
      [] line = IndexLine.p21 -> <<2, 1>> [] line = IndexLine.p22 -> <<2, 2>>
      [] line = IndexLine.p31 -> <<3, 1>> [] line = IndexLine.p13 -> <<1, 3>>
      [] line = IndexLine.p01 -> <<0, 1>> [] line = IndexLine.p10 -> <<1, 0>>
      [] line = IndexLine.neg -> <<-1, 1>> [] line = IndexLine.negcat -> <<2, -1>>
      [] line = IndexLine.big -> <<10, 1>>
      [] OTHER -> <<0, 0>>

RECURSIVE ExpectedRecords(_, _, _)
ExpectedRecords(lines, batch, names) ==
    IF lines = <<>> THEN <<>>
    ELSE LET p == SpelledPair(Head(lines))
             rest == ExpectedRecords(Tail(lines), batch, names)
         IN  IF /\ 1 <= p[1] /\ p[1] <= Len(batch)
                /\ 1 <= p[2] /\ p[2] <= Len(names)
             THEN <<[key |-> batch[p[1]], category |-> names[p[2]],
                     category_id |-> p[2]]>> \o rest
             ELSE rest

\* C10: parse_classification_response never raises, and its records are
\* exactly those of the lines whose task index is in 1..batch size and
\* whose category index is in 1..number of categories, each with the key of
\* that task and the name at that position of the category list; a zero,
\* negative, too large or non-numeric index gives no record.
C10_OutOfRangeDiscarded ==
    ppc = "parsed" =>
        /\ ~pr_out.raised
        /\ pr_out.results = ExpectedRecords(pr_lines, pr_batch, pr_categories)
        /\ \A i \in 1..Len(pr_out.results) :
              /\ \E t \in 1..Len(pr_batch) : pr_out.results[i].key = pr_batch[t]
              /\ pr_out.results[i].category_id \in 1..Len(pr_categories)
              /\ pr_out.results[i].category =
                    pr_categories[pr_out.results[i].category_id]

C10_Witness ==
    /\ ppc = "parsed"
    /\ pr_lines = <<IndexLine.neg, IndexLine.p21>>
    /\ Len(pr_batch) = 2
    /\ Len(pr_out.results) = 1
    /\ pr_out.results[1].key = TaskKey(2)

-----------------------------------------------------------------------------
(* TaskClassifier of src/jira_classifier/task_classifier.py: texts *)

confidence_threshold == 50

\* stand-ins for the fixed texts of the code
ClsText ==
    [marker |-> <<"Z", "_">>,        \* 'ЗАДАЧА_' of the block header
     relevance |-> <<"r", ":">>,     \* 'релевантность:'
     final |-> <<"f", ":">>,         \* 'итоговая_категория:'
     confidence |-> <<"c", ":">>,    \* 'уверенность:'
     reasoning |-> <<"w", ":">>,     \* 'обоснование:'
     undefined |-> <<"?">>,          \* "Неопределено"
     error |-> <<"!", "b">>,         \* "Ошибка при классификации"
     parse_error |-> <<"!", "p">>,   \* "Ошибка при парсинге ответа"
     missing |-> <<"!", "m">>]       \* "Задача не была обработана"

\* length of a match of ЗАДАЧА_\d+: at the start of s, 0 when there is none
RECURSIVE DigitRun(_)
DigitRun(s) ==
    IF s # <<>> /\ Head(s) \in Digits THEN 1 + DigitRun(Tail(s)) ELSE 0

MarkerMatch(s, p) ==
    LET rest == SubSeq(s, p, Len(s))
    IN  IF ~StartsWith(rest, ClsText.marker) THEN 0
        ELSE LET after == SubSeq(rest, Len(ClsText.marker) + 1, Len(rest))
                 d == DigitRun(after)
             IN  IF d >= 1 /\ Len(after) > d /\ after[d + 1] = ":"
                 THEN Len(ClsText.marker) + d + 1
                 ELSE 0

\* re.split(r'ЗАДАЧА_\d+:', response).  A match holds the first letter of
\* the marker at its start only, so no two matches overlap and every
\* position that matches is a separator.
ReSplit(response) ==
    Pieces(response,
           {p \in 1..Len(response) : MarkerMatch(response, p) > 0},
           [p \in 1..Len(response) |-> MarkerMatch(response, p)])

\* str.split(sep, 1)
SplitOnce(s, sep) ==
    LET at == {p \in 1..Len(s) : s[p] = sep}
    IN  IF at = {} THEN <<s>>
        ELSE <<SubSeq(s, 1, Nth(at, 1) - 1), SubSeq(s, Nth(at, 1) + 1, Len(s))>>

\* int(re.search(r'\d+', line).group()): the first run of digits of the
\* line; no digit at all is the AttributeError the code catches
RECURSIVE FirstDigits(_)
FirstDigits(s) ==
    IF s = <<>> THEN [ok |-> FALSE, val |-> 0]
    ELSE IF Head(s) \in Digits
         THEN [ok |-> TRUE,
               val |-> DigitsValue(SubSeq(s, 1, DigitRun(s)), 0)]
         ELSE FirstDigits(Tail(s))

\* [line.strip() for line in block.split('\n') if line.strip()]
RECURSIVE StrippedLines(_)
StrippedLines(ls) ==
    IF ls = <<>> THEN <<>>
    ELSE IF Strip(Head(ls)) = <<>> THEN StrippedLines(Tail(ls))
    ELSE <<Strip(Head(ls))>> \o StrippedLines(Tail(ls))

-----------------------------------------------------------------------------
(* TaskClassifier: parsing a response into ClassificationResults *)

\* category_scores[cat] = score on a dict kept in insertion order
SetScore(scores, cat, score) ==
    IF \E i \in 1..Len(scores) : scores[i].cat = cat
    THEN [i \in 1..Len(scores) |->
            IF scores[i].cat = cat THEN [cat |-> cat, score |-> score]
            ELSE scores[i]]
    ELSE Append(scores, [cat |-> cat, score |-> score])

\* {cat.name: 0 for cat in categories}
RECURSIVE ZeroScores(_)
ZeroScores(cats) ==
    IF cats = <<>> THEN <<>>
    ELSE SetScore(ZeroScores(SubSeq(cats, 1, Len(cats) - 1)),
                  cats[Len(cats)], 0)

\* variant: the fallback never names a category
FallbackResult_Undefined(task_id, cats, reasoning) ==
    [task_id |-> task_id,
     category_scores |-> ZeroScores(cats),
     final_category |-> ClsText.undefined,
     confidence |-> 0,
     reasoning |-> reasoning,
     alternative_categories |-> <<>>]

\* the fallback ClassificationResult the code builds in three places
FallbackResult(task_id, cats, reasoning) ==
    [task_id |-> task_id,
     category_scores |-> ZeroScores(cats),
     final_category |-> IF cats # <<>> THEN cats[1] ELSE ClsText.undefined,
     confidence |-> 0,
     reasoning |-> reasoning,
     alternative_categories |-> <<>>]

\* the locals of _parse_single_task_response before the first line
BlockStart ==
    [in_relevance_section |-> FALSE, category_scores |-> <<>>,
     final_category |-> <<>>, confidence |-> 0, reasoning |-> <<>>]

\* the two trailing `if`s of the loop body: confidence and reasoning
ConfidenceAndReasoning(st, line) ==
    LET withConf ==
            IF Contains(Lower(line), ClsText.confidence)
            THEN [st EXCEPT !.confidence =
                     IF FirstDigits(line).ok THEN FirstDigits(line).val
                     ELSE 50]
            ELSE st
    IN  IF Contains(Lower(line), ClsText.reasoning)
        THEN [withConf EXCEPT !.reasoning = Strip(SplitOnce(line, ":")[2])]
        ELSE withConf

\* a relevance line: `name: score - text`
ScoreLine(st, line) ==
    IF Contains(line, <<":">>) /\ Contains(line, <<"-">>)
    THEN LET parts == SplitOnce(line, ":")
             cat_name == Strip(StripChars(parts[1], {"-", " "}))
             score == ParseInt(Split(parts[2], "-")[1])
         IN  IF score.ok
             THEN [st EXCEPT !.category_scores =
                      SetScore(st.category_scores, cat_name, score.val)]
             ELSE st
    ELSE st

\* one pass of the loop over the lines of a block
BlockLine(st, line) ==
    IF Contains(Lower(line), ClsText.relevance)
    THEN [st EXCEPT !.in_relevance_section = TRUE]
    ELSE IF st.in_relevance_section
         THEN IF Contains(Lower(line), ClsText.final)
              THEN [st EXCEPT !.in_relevance_section = FALSE,
                              !.final_category = Strip(SplitOnce(line, ":")[2])]
              ELSE ConfidenceAndReasoning(ScoreLine(st, line), line)
         ELSE ConfidenceAndReasoning(st, line)

RECURSIVE BlockLines(_, _)
BlockLines(st, lines) ==
    IF lines = <<>> THEN st
    ELSE BlockLines(BlockLine(st, Head(lines)), Tail(lines))

\* max(category_scores.items(), key=score)[0]: the first of the largest
MaxScoreCat(scores) ==
    scores[CHOOSE i \in 1..Len(scores) :
              /\ \A j \in 1..Len(scores) : scores[j].score <= scores[i].score
              /\ \A j \in 1..(i - 1) : scores[j].score < scores[i].score].cat

\* list.sort(key=score, reverse=True): stable, largest first
RECURSIVE SortByScore(_)
SortByScore(items) ==
    IF items = <<>> THEN <<>>
    ELSE LET x == items[Len(items)]
             sorted == SortByScore(SubSeq(items, 1, Len(items) - 1))
             p == Cardinality({i \in 1..Len(sorted) :
                                  sorted[i].score >= x.score})
         IN  SubSeq(sorted, 1, p) \o <<x>> \o SubSeq(sorted, p + 1, Len(sorted))

parse_single_task_response(task_id, block, cats) ==
    LET st == BlockLines(BlockStart, StrippedLines(Split(block, "\n")))
        byScore ==
            IF st.final_category = <<>> /\ st.category_scores # <<>>
            THEN MaxScoreCat(st.category_scores)
            ELSE st.final_category
        useFirst == byScore = <<>> /\ cats # <<>>
        final_category == IF useFirst THEN cats[1] ELSE byScore
        category_scores ==
            IF useFirst THEN SetScore(st.category_scores, final_category, 50)
            ELSE st.category_scores
        others(item) == item.cat # final_category /\ item.score > 0
    IN  [task_id |-> task_id,
         category_scores |-> category_scores,
         final_category |-> final_category,
         confidence |-> st.confidence,
         reasoning |-> st.reasoning,
         alternative_categories |->
             SortByScore(SelectSeq(category_scores, others))]

\* bug variant: a batch answered with too few blocks is not filled up
PadResults_Skip(rs, batch, cats) == rs

\* `while len(results) < len(tasks)`: a fallback result for every task the
\* response has no block for
RECURSIVE PadResults(_, _, _)
PadResults(rs, batch, cats) ==
    IF Len(rs) < Len(batch)
    THEN PadResults(Append(rs, FallbackResult(batch[Len(rs) + 1], cats,
                                              ClsText.missing)),
                    batch, cats)
    ELSE rs

\* _parse_single_task_response works on str values only and raises on none
\* of them, so the except branch of the block loop (ClsText.parse) is never taken
parse_batch_response(response, batch, cats) ==
    LET task_blocks == Tail(ReSplit(response))
        paired == Min(Len(batch), Len(task_blocks))
    IN  PadResults([i \in 1..paired |->
                       parse_single_task_response(batch[i], task_blocks[i],
                                                  cats)],
                   batch, cats)

\* _classify_batch after the prompt is built
classify_batch(batch, cats, out) ==
    IF out.raised
    THEN [i \in 1..Len(batch) |-> FallbackResult(batch[i], cats, ClsText.error)]
    ELSE parse_batch_response(out.text, batch, cats)

-----------------------------------------------------------------------------
(* TaskClassifier.classify_tasks: inputs and steps *)

\* lines of a task block
ClsLine ==
    [rel |-> <<"R", ":">>,
     rel_detailed |-> <<"R", "_", "k", ":">>,    \* 'Релевантность_категорий:'
     ui80 |-> <<"-", " ">> \o T_UI \o <<":", " ", "8", "0", " ", "-", " ", "x">>,
     api20 |-> <<"-", " ">> \o T_API \o <<":", " ", "2", "0", " ", "-", " ", "x">>,
     fin_ui |-> <<"F", ":", " ">> \o T_UI,
     fin_api |-> <<"F", ":", " ">> \o T_API,
     fin_q |-> <<"F", ":", " ", "Q">>,    \* a name that is no category
     c90 |-> <<"C", ":", " ", "9", "0">>,
     c35 |-> <<"C", ":", " ", "3", "5">>,
     c150 |-> <<"C", ":", " ", "1", "5", "0">>,
     cword |-> <<"C", ":", " ", "h">>,
     why |-> <<"W", ":", " ", "o", "k">>]

Block ==
    [high |-> JoinLines(<<ClsLine.rel, ClsLine.ui80, ClsLine.api20,
                          ClsLine.fin_ui, ClsLine.c90, ClsLine.why>>),
     low |-> JoinLines(<<ClsLine.rel, ClsLine.api20, ClsLine.fin_api,
                         ClsLine.c35>>),
     nofinal |-> JoinLines(<<ClsLine.rel, ClsLine.api20, ClsLine.ui80,
                             ClsLine.cword>>),
     unknown |-> JoinLines(<<ClsLine.rel, ClsLine.fin_q, ClsLine.c150>>),
     blank |-> <<" ">>,
     detailed |-> JoinLines(<<ClsLine.rel_detailed, ClsLine.ui80,
                              ClsLine.fin_api, ClsLine.c90>>)]

\* the header of block k: numbered by position, or with one fixed number
BlockHeader(k, numbering) ==
    ClsText.marker
    \o (IF numbering = "position"
        THEN <<CHOOSE d \in Digits : DigitVal(d) = k % 10>>
        ELSE <<"7">>)
    \o <<":", "\n">>

RECURSIVE RenderBlocks(_, _, _)
RenderBlocks(blocks, k, numbering) ==
    IF blocks = <<>> THEN <<>>
    ELSE BlockHeader(k, numbering) \o Head(blocks) \o <<"\n">>
         \o RenderBlocks(Tail(blocks), k + 1, numbering)

\* texts of the model for the first pass: some words, then the blocks
FirstPassResponses ==
    {<<"o", "k", "\n">> \o RenderBlocks(bs, 1, numbering) :
        bs \in SeqsUpTo({Block.high, Block.low, Block.nofinal, Block.unknown,
                         Block.blank}, MaxBlocks),
        numbering \in {"position", "fixed"}}

\* texts of the model for the detailed second pass
DetailedResponses == {Block.low, Block.nofinal, Block.detailed, Block.blank}

ModelOutcomes(texts) ==
    {[raised |-> TRUE, text |-> e] : e \in Errors}
    \cup {[raised |-> FALSE, text |-> t] : t \in texts}

\* variant: a result at the threshold counts as low
LowConfidence_AtMost(r) == r.confidence <= confidence_threshold

\* `r.confidence < self.confidence_threshold`
LowConfidence(r) == r.confidence < confidence_threshold

ClsInit ==
    /\ cls_tasks \in {TaskTable(n) : n \in 0..MaxClsTasks}
    /\ cls_categories \in CategoryLists \cup {<<>>}
    /\ cls_batch_size \in 1..MaxBatchSize
    /\ cls_i = 0
    /\ cls_results = <<>>
    /\ low_tasks = <<>>
    /\ low_confidence_results = <<>>
    /\ improved_results = <<>>
    /\ llm_requests = <<>>
    /\ detailed_outcomes = <<>>
    /\ batch_raised = <<>>
    /\ xpc = "loop"

\* one pass of the batch loop.  The prompt is built before the try and reads
\* categories[0]: with no category the IndexError leaves classify_tasks.
FirstPassBatch ==
    /\ xpc = "loop"
    /\ cls_i < Len(cls_tasks)
    /\ LET batch == SubSeq(cls_tasks, cls_i + 1,
                           Min(cls_i + cls_batch_size, Len(cls_tasks)))
       IN  IF cls_categories = <<>>
           THEN /\ xpc' = "raised"
                /\ UNCHANGED <<cls_i, cls_results, llm_requests, batch_raised>>
           ELSE /\ \E out \in ModelOutcomes(FirstPassResponses) :
                     /\ cls_results' =
                            cls_results
                            \o classify_batch(batch, cls_categories, out)
                     /\ batch_raised' = Append(batch_raised, out.raised)
                /\ llm_requests' =
                       Append(llm_requests, [kind |-> "batch", keys |-> batch])
                /\ cls_i' = cls_i + cls_batch_size
                /\ UNCHANGED xpc
    /\ ClsFrame
    /\ UNCHANGED <<cls_tasks, cls_categories, cls_batch_size, low_tasks,
                   low_confidence_results, improved_results, detailed_outcomes>>

\* after the loop: the results below the threshold, and the tasks at the
\* same positions of the task list
SelectLowConfidence ==
    /\ xpc = "loop"
    /\ cls_i >= Len(cls_tasks)
    /\ low_confidence_results' = SelectSeq(cls_results, LowConfidence)
    /\ LET picked == SelectSeq([i \in 1..Len(cls_results) |->
                                   [task |-> cls_tasks[i], r |-> cls_results[i]]],
                               LAMBDA p : LowConfidence(p.r))
       IN  low_tasks' = [k \in 1..Len(picked) |-> picked[k].task]
    /\ xpc' = "reclassify"
    /\ ClsFrame
    /\ UNCHANGED <<cls_tasks, cls_categories, cls_batch_size, cls_i,
                   cls_results, improved_results, llm_requests,
                   detailed_outcomes, batch_raised>>

\* one pass of the loop of _reclassify_low_confidence
ReclassifyTask ==
    /\ xpc = "reclassify"
    /\ Len(improved_results) < Min(Len(low_tasks), Len(low_confidence_results))
    /\ LET k == Len(improved_results) + 1
       IN  /\ \E out \in ModelOutcomes(DetailedResponses) :
                 /\ improved_results' =
                        Append(improved_results,
                               IF out.raised THEN low_confidence_results[k]
                               ELSE parse_single_task_response(
                                        low_tasks[k], out.text, cls_categories))
                 /\ detailed_outcomes' = Append(detailed_outcomes, out)
           /\ llm_requests' =
                  Append(llm_requests,
                         [kind |-> "detailed", keys |-> <<low_tasks[k]>>])
    /\ ClsFrame
    /\ UNCHANGED <<cls_tasks, cls_categories, cls_batch_size, cls_i,
                   cls_results, low_tasks, low_confidence_results,
                   batch_raised, xpc>>

\* improved_dict[task_id]: the last improved result with that id
ImprovedFor(task_id) ==
    improved_results[CHOOSE k \in 1..Len(improved_results) :
        /\ improved_results[k].task_id = task_id
        /\ \A j \in (k + 1)..Len(improved_results) :
              improved_results[j].task_id # task_id]

\* the replacement of the low results, then the mean confidence for the
\* log line, a division by len(results), and the return
ReplaceAndReturn ==
    /\ xpc = "reclassify"
    /\ Len(improved_results) = Min(Len(low_tasks), Len(low_confidence_results))
    /\ cls_results' =
          [i \in 1..Len(cls_results) |->
              IF \E k \in 1..Len(improved_results) :
                    improved_results[k].task_id = cls_results[i].task_id
              THEN ImprovedFor(cls_results[i].task_id)
              ELSE cls_results[i]]
    /\ xpc' = IF Len(cls_results) = 0 THEN "raised" ELSE "returned"
    /\ ClsFrame
    /\ UNCHANGED <<cls_tasks, cls_categories, cls_batch_size, cls_i, low_tasks,
                   low_confidence_results, improved_results, llm_requests,
                   detailed_outcomes, batch_raised>>

ClsNext ==
    \/ FirstPassBatch
    \/ SelectLowConfidence
    \/ ReclassifyTask
    \/ ReplaceAndReturn

ClsOff ==
    /\ cls_tasks = <<>>
    /\ cls_categories = <<>>
    /\ cls_batch_size = 0
    /\ cls_i = 0
    /\ cls_results = <<>>
    /\ low_tasks = <<>>
    /\ low_confidence_results = <<>>
    /\ improved_results = <<>>
    /\ llm_requests = <<>>
    /\ detailed_outcomes = <<>>
    /\ batch_raised = <<>>
    /\ xpc = "off"

-----------------------------------------------------------------------------
(* Properties of TaskClassifier.classify_tasks *)

\* C1: whatever the model answers or raises, the list of results holds
\* exactly one result per input task id when the first pass is over, and
\* again when classify_tasks returns after the second pass.
C1_OneResultPerTask ==
    LET rs == cls_results
    IN  xpc \in {"reclassify", "returned"} =>
            /\ Len(rs) = Len(cls_tasks)
            /\ \A t \in 1..Len(cls_tasks) :
                  Cardinality({i \in 1..Len(rs) :
                                  rs[i].task_id = cls_tasks[t]}) = 1
            /\ \A i \in 1..Len(rs) :
                  \E t \in 1..Len(cls_tasks) : rs[i].task_id = cls_tasks[t]

C1_Witness ==
    /\ xpc = "returned"
    /\ Len(cls_tasks) = 2
    /\ \E i \in 1..Len(cls_results) : cls_results[i].reasoning = ClsText.missing
    /\ \E k \in 1..Len(improved_results) :
          improved_results[k] # low_confidence_results[k]
    /\ \E i \in 1..Len(cls_results) : cls_results[i].confidence = 90

\* C12: in every ClassificationResult the chosen category, if non-empty, is
\* the name of a category of the current list or the default written by a
\* fallback path; a name taken from the model's text that matches no known
\* category never is the chosen category of a result.
C12_ChosenCategoryKnown ==
    \A i \in 1..Len(cls_results) :
        LET chosen == cls_results[i].final_category
        IN  \/ chosen = <<>>
            \/ \E c \in 1..Len(cls_categories) : cls_categories[c] = chosen
            \/ chosen = ClsText.undefined

\* keys of the tasks sent to the detailed single-task request, in order
DetailedKeys ==
    LET d == SelectSeq(llm_requests, LAMBDA q : q.kind = "detailed")
    IN  [k \in 1..Len(d) |-> d[k].keys[1]]

\* C13: after the first pass exactly the tasks whose first-pass confidence
\* is strictly below confidence_threshold are resubmitted to the detailed
\* single-task request, and for each of them whose detailed pass succeeds
\* the returned table holds the reclassification result in place of the
\* original, whatever its confidence.
C13_SecondPass ==
    /\ xpc \in {"reclassify", "returned"} =>
          /\ DetailedKeys = SubSeq(low_tasks, 1, Len(improved_results))
          /\ Len(low_confidence_results) = Len(low_tasks)
          /\ \A k \in 1..Len(low_tasks) :
                /\ low_confidence_results[k].task_id = low_tasks[k]
                /\ low_confidence_results[k].confidence < confidence_threshold
    /\ xpc = "reclassify" =>
          \A i \in 1..Len(cls_tasks) :
              (cls_results[i].confidence < confidence_threshold)
                  <=> (\E k \in 1..Len(low_tasks) : low_tasks[k] = cls_tasks[i])
    /\ xpc = "returned" =>
          /\ Len(improved_results) = Len(low_tasks)
          /\ \A i \in 1..Len(cls_tasks) :
                \/ \E k \in 1..Len(low_tasks) : low_tasks[k] = cls_tasks[i]
                \/ cls_results[i].confidence >= confidence_threshold
          /\ \A k \in 1..Len(low_tasks) : \A i \in 1..Len(cls_tasks) :
                (cls_tasks[i] = low_tasks[k] /\ ~detailed_outcomes[k].raised) =>
                    cls_results[i] =
                        parse_single_task_response(low_tasks[k],
                            detailed_outcomes[k].text, cls_categories)

\* a run with a result at the threshold that is not resubmitted, and a low
\* result replaced by a reclassification result that is itself still low
C13_Witness ==
    /\ xpc = "returned"
    /\ Len(cls_tasks) = 2
    /\ low_tasks = <<cls_tasks[1]>>
    /\ cls_results[2].confidence = confidence_threshold
    /\ ~detailed_outcomes[1].raised
    /\ cls_results[1] # low_confidence_results[1]
    /\ cls_results[1].confidence < confidence_threshold

\* C14: when the detailed reclassification of a low-confidence task fails,
\* by the model call raising or by a response in which no field of a result
\* can be read, the task's entry in the returned table is its first-pass
\* result unchanged, with the same category, confidence, reasoning and
\* scores.
C14_FailedKeepsOriginal ==
    xpc = "returned" =>
        \A k \in 1..Len(low_tasks) : \A i \in 1..Len(cls_tasks) :
            LET out == detailed_outcomes[k]
                unreadable ==
                    \A f \in {ClsText.relevance, ClsText.final,
                              ClsText.confidence, ClsText.reasoning} :
                        ~Contains(Lower(out.text), f)
            IN  (cls_tasks[i] = low_tasks[k] /\ (out.raised \/ unreadable)) =>
                    cls_results[i] = low_confidence_results[k]

\* C15: every task gets its first-pass result once and keeps an entry from
\* then on; an entry changes only in the replacement that ends the second
\* pass, and only for a task whose first-pass confidence is below the
\* threshold; no task is sent to the detailed request more than once, and a
\* task with first-pass confidence at or above the threshold is never sent
\* to it and keeps its first-pass result in the returned table.
C15_TaskStateMachine ==
    [][ /\ Len(cls_results) <= Len(cls_results')
        /\ Len(cls_results') <= Len(cls_tasks)
        /\ Len(cls_results') > Len(cls_results) => xpc = "loop"
        /\ \A i \in 1..Len(cls_results) :
              /\ cls_results'[i].task_id = cls_results[i].task_id
              /\ cls_results'[i] # cls_results[i] =>
                    /\ xpc = "reclassify" /\ xpc' = "returned"
                    /\ cls_results[i].confidence < confidence_threshold
              /\ (xpc = "reclassify"
                    /\ cls_results[i].confidence >= confidence_threshold) =>
                    /\ cls_results'[i] = cls_results[i]
                    /\ \A k \in 1..Len(DetailedKeys') :
                          DetailedKeys'[k] # cls_tasks[i]
        /\ \A j, k \in 1..Len(DetailedKeys') :
              DetailedKeys'[j] = DetailedKeys'[k] => j = k
        /\ \A t \in 1..Len(cls_tasks) :
              Cardinality({q \in 1..Len(llm_requests') :
                  /\ llm_requests'[q].kind = "batch"
                  /\ \E p \in 1..Len(llm_requests'[q].keys) :
                        llm_requests'[q].keys[p] = cls_tasks[t]}) <= 1
      ]_vars

\* a returned run in which one low task kept its first-pass result after
\* the detailed call raised and another was replaced
C15_Witness ==
    /\ xpc = "returned"
    /\ Len(low_tasks) = 2
    /\ detailed_outcomes[1].raised
    /\ ~detailed_outcomes[2].raised
    /\ cls_results[1] = low_confidence_results[1]
    /\ cls_results[2] # low_confidence_results[2]

\* C32: once the first pass is over the i-th result carries the key of the
\* i-th task, whatever numbers the block headers of the responses bore, and
\* the tasks picked for the second pass are, position by position, the tasks
\* of the low-confidence results.
C32_PositionsAligned ==
    /\ Len(cls_results) <= Len(cls_tasks)
    /\ \A i \in 1..Len(cls_results) : cls_results[i].task_id = cls_tasks[i]
    /\ xpc \in {"reclassify", "returned"} =>
          /\ Len(cls_results) = Len(cls_tasks)
          /\ Len(low_tasks) = Len(low_confidence_results)
          /\ \A k \in 1..Len(low_tasks) :
                low_confidence_results[k].task_id = low_tasks[k]

\* the first task got a confident result and the second, alone, was picked
C32_Witness ==
    /\ xpc = "reclassify"
    /\ Len(cls_tasks) = 2
    /\ cls_results[1].confidence = 90
    /\ low_tasks = <<cls_tasks[2]>>
    /\ low_confidence_results[1].confidence = 35

\* C36: a first-pass batch whose model call raised gives each of its tasks a
\* result with confidence 0 and the first category; the batch loop goes on
\* to the end of the task list, one request per batch, whatever raised; and
\* every task of a raised batch is in the second-pass selection and has had
\* its own detailed request by the time classify_tasks returns.
C36_FailedBatchDoesNotStop ==
    LET n == Len(cls_tasks)
        first(b) == (b - 1) * cls_batch_size + 1
        last(b) == Min(b * cls_batch_size, n)
        batch_requests == SelectSeq(llm_requests, LAMBDA q : q.kind = "batch")
        failed == {i \in 1..n :
                      \E b \in 1..Len(batch_raised) :
                          batch_raised[b] /\ i \in first(b)..last(b)}
    IN  cls_categories # <<>> =>
          /\ Len(batch_requests) = Len(batch_raised)
          /\ \A b \in 1..Len(batch_requests) :
                batch_requests[b].keys = SubSeq(cls_tasks, first(b), last(b))
          /\ xpc \in {"loop", "reclassify"} =>
                \A i \in failed :
                    /\ cls_results[i].task_id = cls_tasks[i]
                    /\ cls_results[i].confidence = 0
                    /\ cls_results[i].final_category = cls_categories[1]
          /\ xpc = "raised" => n = 0
          /\ xpc \in {"reclassify", "returned"} =>
                /\ Len(batch_raised) * cls_batch_size >= n
                /\ (Len(batch_raised) - 1) * cls_batch_size < n
                /\ \A i \in failed :
                      \E k \in 1..Len(low_tasks) : low_tasks[k] = cls_tasks[i]
          /\ xpc = "returned" =>
                \A i \in failed :
                    Cardinality({k \in 1..Len(llm_requests) :
                        /\ llm_requests[k].kind = "detailed"
                        /\ llm_requests[k].keys = <<cls_tasks[i]>>}) = 1

\* two batches of one task: the first call raised, the second was answered
\* with confidence 90, and only the first task went to the second pass
C36_Witness ==
    /\ xpc = "returned"
    /\ cls_batch_size = 1
    /\ batch_raised = <<TRUE, FALSE>>
    /\ Len(llm_requests) = 3
    /\ llm_requests[3] = [kind |-> "detailed", keys |-> <<cls_tasks[1]>>]
    /\ cls_results[2].confidence = 90

\* C39: classify_tasks called with an empty task list sends no model request,
\* raises nothing, and returns an empty result list.
C39_EmptyInputHandled ==
    cls_tasks = <<>> =>
        /\ llm_requests = <<>>
        /\ xpc # "raised"
        /\ xpc = "returned" => cls_results = <<>>

-----------------------------------------------------------------------------
(* CategoryCreator._create_representative_sample: the stratified sampler *)

\* a JiraTask as far as the sampler reads it; two tasks are equal when all
\* their fields are (JiraTask is a dataclass), so the key stands for them
SampleTask(key, issue_type) == [key |-> key, issue_type |-> issue_type]

SamplePool ==
    {SampleTask("B-1", "Bug"), SampleTask("B-2", "Bug"),
     SampleTask("T-1", "Task"), SampleTask("T-2", "Task"),
     SampleTask("S-1", "Story")}

\* five bugs, one task and one story
SkewedTasks ==
    <<SampleTask("B-1", "Bug"), SampleTask("B-2", "Bug"),
      SampleTask("B-3", "Bug"), SampleTask("B-4", "Bug"),
      SampleTask("B-5", "Bug"), SampleTask("T-1", "Task"),
      SampleTask("S-1", "Story")>>

\* sample[:n] for n >= 0
Take(seq, n) == SubSeq(seq, 1, Min(n, Len(seq)))

\* the keys of tasks_by_type, in insertion order
IssueTypes(tasks) ==
    LET seen[i \in 0..Len(tasks)] ==
            IF i = 0 THEN <<>>
            ELSE IF \E k \in 1..Len(seen[i - 1]) :
                        seen[i - 1][k] = tasks[i].issue_type
                 THEN seen[i - 1]
                 ELSE Append(seen[i - 1], tasks[i].issue_type)
    IN  seen[Len(tasks)]

\* tasks_by_type[issue_type]
TasksOfType(tasks, issue_type) ==
    SelectSeq(tasks, LAMBDA t : t.issue_type = issue_type)

\* max(1, int(len(type_tasks) / len(tasks) * sample_size)): the float product
\* truncated; for the sizes explored the float result equals the exact
\* quotient's integer part
TypeSampleSize(count, total, size) ==
    LET truncated == (count * size) \div total
    IN  IF truncated > 1 THEN truncated ELSE 1

\* random.sample(population, k): any k positions, in any order
RandomSample(population, k) ==
    {[i \in 1..k |-> population[p[i]]] :
        p \in {f \in [1..k -> 1..Len(population)] :
                  \A i, j \in 1..k : i # j => f[i] # f[j]}}

FitsSample_Strict(tasks, size) == Len(tasks) < size

\* len(tasks) <= sample_size
FitsSample(tasks, size) == Len(tasks) <= size

RemainingTasks_All(tasks, chosen) == tasks

\* [t for t in tasks if t not in sample]
RemainingTasks(tasks, chosen) ==
    SelectSeq(tasks, LAMBDA t : \A k \in 1..Len(chosen) : chosen[k] # t)

\* the task lists explored: every list over the pool, a task possibly more
\* than once, and the skewed list
SampleInit ==
    /\ s_tasks \in SeqsUpTo(SamplePool, MaxSampleTasks) \cup {SkewedTasks}
    /\ sample_size \in 0..MaxSampleSize
    /\ pending_types = <<>>
    /\ type_samples = <<>>
    /\ sample = <<>>
    /\ random_calls = 0
    /\ mpc = "called"

\* lines 76-77: `return tasks`
ReturnAllTasks ==
    /\ mpc = "called"
    /\ FitsSample(s_tasks, sample_size)
    /\ sample' = s_tasks
    /\ mpc' = "returned"
    /\ UNCHANGED <<s_tasks, sample_size, pending_types, type_samples,
                   random_calls>>
    /\ UNCHANGED <<poolVars, consVars, batchVars, parseVars, clsVars, pipeVars>>

\* lines 79-87: the tasks grouped by issue type
GroupByType ==
    /\ mpc = "called"
    /\ ~FitsSample(s_tasks, sample_size)
    /\ pending_types' = IssueTypes(s_tasks)
    /\ mpc' = "strata"
    /\ UNCHANGED <<s_tasks, sample_size, type_samples, sample, random_calls>>
    /\ UNCHANGED <<poolVars, consVars, batchVars, parseVars, clsVars, pipeVars>>

\* lines 88-91: one pass of `for issue_type, type_tasks in ...items()`
SampleType ==
    /\ mpc = "strata"
    /\ pending_types # <<>>
    /\ LET issue_type == Head(pending_types)
           type_tasks == TasksOfType(s_tasks, issue_type)
           type_sample_size ==
               TypeSampleSize(Len(type_tasks), Len(s_tasks), sample_size)
       IN  \E type_sample \in
                 RandomSample(type_tasks,
                              Min(type_sample_size, Len(type_tasks))) :
               /\ sample' = sample \o type_sample
               /\ type_samples' =
                      Append(type_samples,
                             [issue_type |-> issue_type,
                              type_sample_size |-> type_sample_size,
                              drawn |-> Len(type_sample)])
    /\ pending_types' = Tail(pending_types)
    /\ random_calls' = random_calls + 1
    /\ UNCHANGED <<s_tasks, sample_size, mpc>>
    /\ UNCHANGED <<poolVars, consVars, batchVars, parseVars, clsVars, pipeVars>>

\* lines 94-102: the top-up and `return sample[:sample_size]`
TopUpAndReturn ==
    /\ mpc = "strata"
    /\ pending_types = <<>>
    /\ LET remaining_tasks == RemainingTasks(s_tasks, sample)
           additional_needed == sample_size - Len(sample)
       IN  IF Len(sample) < sample_size /\ remaining_tasks # <<>>
           THEN \E additional \in
                      RandomSample(remaining_tasks,
                                   Min(additional_needed, Len(remaining_tasks))) :
                    /\ sample' = Take(sample \o additional, sample_size)
                    /\ random_calls' = random_calls + 1
           ELSE /\ sample' = Take(sample, sample_size)
                /\ UNCHANGED random_calls
    /\ mpc' = "returned"
    /\ UNCHANGED <<s_tasks, sample_size, pending_types, type_samples>>
    /\ UNCHANGED <<poolVars, consVars, batchVars, parseVars, clsVars, pipeVars>>

SampleNext == ReturnAllTasks \/ GroupByType \/ SampleType \/ TopUpAndReturn

SampleOff ==
    /\ s_tasks = <<>>
    /\ sample_size = 0
    /\ pending_types = <<>>
    /\ type_samples = <<>>
    /\ sample = <<>>
    /\ random_calls = 0
    /\ mpc = "off"

-----------------------------------------------------------------------------
(* Properties of the sampler *)

\* C23: in the stratified step the quota computed for an issue type T is
\* max(1, round(count(T) / total * sample_size)), round being the rounding to
\* the nearest integer (a tie goes to the even one, as Python's round does).
C23_RoundedQuota ==
    \A k \in 1..Len(type_samples) :
        LET count == Len(TasksOfType(s_tasks, type_samples[k].issue_type))
            total == Len(s_tasks)
            below == (count * sample_size) \div total
            twice == 2 * ((count * sample_size) % total)
            rounded == IF twice < total THEN below
                       ELSE IF twice > total THEN below + 1
                       ELSE IF below % 2 = 0 THEN below ELSE below + 1
        IN  type_samples[k].type_sample_size =
                IF rounded > 1 THEN rounded ELSE 1

\* C24: whatever the task list, the sample size (not negative) and the random
\* draws, the sampler returns exactly min(sample_size, total) tasks.
C24_ExactSize ==
    mpc = "returned" => Len(sample) = Min(sample_size, Len(s_tasks))

\* C25: when the task list is not longer than sample_size the sampler returns
\* the task list itself, in its order, and calls random.sample not once.
C25_SmallInputPassesThrough ==
    (mpc = "returned" /\ Len(s_tasks) <= sample_size) =>
        /\ sample = s_tasks
        /\ random_calls = 0

C25_Witness ==
    /\ mpc = "returned"
    /\ Len(s_tasks) = sample_size
    /\ Len(s_tasks) = 3
    /\ s_tasks[1].issue_type = "Story"
    /\ s_tasks[2].issue_type = "Bug"

\* C26: for a task list without a repeated key, every returned task is a task
\* of the list and no task is returned twice, the top-up included.
C26_WithoutReplacement ==
    (/\ mpc = "returned"
     /\ \A i, j \in 1..Len(s_tasks) :
           i # j => s_tasks[i].key # s_tasks[j].key) =>
        /\ \A k \in 1..Len(sample) :
              \E i \in 1..Len(s_tasks) : s_tasks[i] = sample[k]
        /\ \A k, l \in 1..Len(sample) : k # l => sample[k] # sample[l]

C26_Witness ==
    /\ mpc = "returned"
    /\ \A i, j \in 1..Len(s_tasks) : i # j => s_tasks[i].key # s_tasks[j].key
    /\ random_calls = Len(type_samples) + 1
    /\ Len(type_samples) = 2
    /\ Len(sample) = 3

\* C27: when the task list is longer than sample_size, every issue type of
\* the task list has a task in the returned sample.
C27_EveryTypeRepresented ==
    (mpc = "returned" /\ Len(s_tasks) > sample_size) =>
        \A i \in 1..Len(s_tasks) :
            \E k \in 1..Len(sample) :
                sample[k].issue_type = s_tasks[i].issue_type

-----------------------------------------------------------------------------
(* JiraClassificationPipeline.run_full_pipeline and main_classification of   *)
(* src/pipeline/task_classifier.py: what happens when the input is missing   *)

NoTasks_Never(found) == FALSE

\* `if not tasks:` on the list search_issues_by_jql returned
NoTasks(found) == found = 0

\* the entry point called, and what it will find: the verdict of validate_jql,
\* the outcome of the search (a number of tasks, or -1 for an exception of
\* the ticket source), the two snapshot files
PipeInit ==
    /\ run_input \in
          [entry : {"run_full_pipeline"}, valid : BOOLEAN,
           found : -1..MaxFound, save_intermediate : BOOLEAN,
           tasks_file : {TRUE}, categories_file : {TRUE}]
          \cup
          [entry : {"main_classification"}, valid : {TRUE}, found : {1},
           save_intermediate : {FALSE},
           tasks_file : BOOLEAN, categories_file : BOOLEAN]
    /\ stages_run = <<>>
    /\ model_requests = 0
    /\ run_error = ""
    /\ qpc = "start"

\* _fetch_tasks_by_jql, and the saving of the tasks that follows it
FetchTasks ==
    /\ qpc = "start"
    /\ run_input.entry = "run_full_pipeline"
    /\ IF ~run_input.valid
       THEN /\ stages_run' = <<"validate_jql">>
            /\ run_error' = "ValueError: invalid query"
            /\ qpc' = "raised"
       ELSE IF run_input.found < 0
       THEN /\ stages_run' = <<"validate_jql", "search_issues_by_jql">>
            /\ run_error' = "search failed"
            /\ qpc' = "raised"
       ELSE IF NoTasks(run_input.found)
       THEN /\ stages_run' = <<"validate_jql", "search_issues_by_jql">>
            /\ run_error' = "ValueError: no tasks"
            /\ qpc' = "raised"
       ELSE /\ stages_run' =
                  <<"validate_jql", "search_issues_by_jql">> \o
                  (IF run_input.save_intermediate
                   THEN <<"save_tasks_to_json">> ELSE <<>>)
            /\ run_error' = run_error
            /\ qpc' = "fetched"
    /\ UNCHANGED <<run_input, model_requests>>
    /\ UNCHANGED <<poolVars, consVars, batchVars, parseVars, clsVars, sampleVars>>

\* a stage that talks to the model: it returns after at least one request,
\* or raises, and the pipeline re-raises
ModelStage(from, name, saved, to) ==
    /\ qpc = from
    /\ \E ok \in BOOLEAN, n \in 0..MaxStageRequests :
          /\ ok => n >= 1
          /\ model_requests' = model_requests + n
          /\ stages_run' =
                Append(stages_run, name) \o
                (IF ok /\ run_input.save_intermediate THEN saved ELSE <<>>)
          /\ run_error' = IF ok THEN run_error ELSE "stage failed"
          /\ qpc' = IF ok THEN to ELSE "raised"
    /\ UNCHANGED run_input
    /\ UNCHANGED <<poolVars, consVars, batchVars, parseVars, clsVars, sampleVars>>

\* lines 66-73
CreateCategories ==
    ModelStage("fetched", "create_categories", <<"save_categories">>,
               "categorized")

\* lines 75-82
ClassifyTasks ==
    ModelStage("categorized", "classify_tasks", <<"save_results">>,
               "classified")

\* lines 84-97
GenerateReports ==
    /\ qpc = "classified"
    /\ stages_run' = Append(stages_run, "generate_all_reports")
    /\ \/ qpc' = "returned" /\ run_error' = run_error
       \/ qpc' = "raised" /\ run_error' = "stage failed"
    /\ UNCHANGED <<run_input, model_requests>>
    /\ UNCHANGED <<poolVars, consVars, batchVars, parseVars, clsVars, sampleVars>>

\* load_tasks_and_categories as main_classification calls it; the exception
\* is caught there and (None, None) returned
LoadTasksAndCategories ==
    /\ qpc = "start"
    /\ run_input.entry = "main_classification"
    /\ stages_run' = <<"load_tasks_and_categories">>
    /\ IF ~run_input.tasks_file \/ ~run_input.categories_file
       THEN /\ run_error' = "FileNotFoundError"
            /\ qpc' = "returned None"
       ELSE /\ run_error' = run_error
            /\ qpc' = "loaded"
    /\ UNCHANGED <<run_input, model_requests>>
    /\ UNCHANGED <<poolVars, consVars, batchVars, parseVars, clsVars, sampleVars>>

\* classify_all_tasks as main_classification calls it
ClassifyAllTasks ==
    /\ qpc = "loaded"
    /\ \E ok \in BOOLEAN, n \in 0..MaxStageRequests :
          /\ ok => n >= 1
          /\ model_requests' = model_requests + n
          /\ run_error' = IF ok THEN run_error ELSE "stage failed"
          /\ qpc' = IF ok THEN "returned" ELSE "returned None"
    /\ stages_run' = Append(stages_run, "classify_all_tasks")
    /\ UNCHANGED run_input
    /\ UNCHANGED <<poolVars, consVars, batchVars, parseVars, clsVars, sampleVars>>

PipeNext ==
    \/ FetchTasks
    \/ CreateCategories
    \/ ClassifyTasks
    \/ GenerateReports
    \/ LoadTasksAndCategories
    \/ ClassifyAllTasks

PipeOff ==
    /\ run_input = <<>>
    /\ stages_run = <<>>
    /\ model_requests = 0
    /\ run_error = ""
    /\ qpc = "off"

-----------------------------------------------------------------------------
(* Properties of the pipeline entry points *)

\* C29: when the ticket source reports the query invalid or the search
\* returns no task, run_full_pipeline raises to its caller, no request has
\* gone to the model and no stage after the fetch has run; when a snapshot
\* file is missing, main_classification ends without classify_all_tasks and
\* without a request to the model.
C29_InputErrorsHalt ==
    LET ran(name) == \E k \in 1..Len(stages_run) : stages_run[k] = name
    IN  /\ (/\ qpc # "start"
            /\ run_input.entry = "run_full_pipeline"
            /\ (~run_input.valid \/ run_input.found = 0)) =>
               /\ qpc = "raised"
               /\ run_error = IF run_input.valid THEN "ValueError: no tasks"
                              ELSE "ValueError: invalid query"
               /\ model_requests = 0
               /\ \A k \in 1..Len(stages_run) :
                     stages_run[k] \in {"validate_jql", "search_issues_by_jql"}
        /\ (/\ qpc # "start"
            /\ run_input.entry = "main_classification"
            /\ (~run_input.tasks_file \/ ~run_input.categories_file)) =>
               /\ qpc = "returned None"
               /\ run_error = "FileNotFoundError"
               /\ model_requests = 0
               /\ ~ran("classify_all_tasks")

C29_Witness ==
    /\ qpc = "raised"
    /\ run_input.valid
    /\ run_input.found = 0
    /\ stages_run = <<"validate_jql", "search_issues_by_jql">>

-----------------------------------------------------------------------------
(* CategoryCreator of src/jira_classifier/category_creator.py: parsing the  *)
(* model's category blocks; the two category parsers as functions of a text *)

CatText ==
    [marker |-> <<"c", "_">>,             \* 'КАТЕГОРИЯ_', matched ignoring case
     name |-> <<"n", ":">>,               \* 'название:'
     Name |-> <<"N", ":">>,               \* 'Название:' as replace() spells it
     description |-> <<"d", ":">>,        \* 'описание:'
     keywords |-> {<<"k", "_", "w", ":">>, <<"k", " ", "w", ":">>},
                                          \* 'ключевые_слова:', 'ключевые слова:'
     issue_types |-> {<<"t", "_", "z", ":">>, <<"t", " ", "z", ":">>},
                                          \* 'типы_задач:', 'типы задач:'
     examples |-> <<"e", ":">>,           \* 'примеры:'
     auto_name |-> <<"C", "a", "t", " ">>,    \* 'Категория ' before the counter
     auto_description |-> <<"a", "u", "t", "o">>]
                                          \* 'Автоматически созданная категория'

\* re.findall(r"КАТЕГОРИЯ_\d+:\s*\n(.*?)(?=КАТЕГОРИЯ_\d+:|$)", response,
\* re.DOTALL | re.IGNORECASE): a header opens a block when only whitespace
\* separates its colon from a newline; the block runs to the next header of
\* any kind or to the end of the text
CategoryBlocks(response) ==
    LET low == Lower(response)
        n == Len(response)
        hdr(p) ==
            LET rest == SubSeq(low, p, n)
                after == SubSeq(rest, Len(CatText.marker) + 1, Len(rest))
                d == DigitRun(after)
            IN  IF StartsWith(rest, CatText.marker) /\ d >= 1
                   /\ Len(after) > d /\ after[d + 1] = ":"
                THEN Len(CatText.marker) + d + 1
                ELSE 0
        H == {p \in 1..n : hdr(p) > 0}
        nls(p) == {q \in (p + hdr(p))..n :
                      /\ response[q] = "\n"
                      /\ \A r \in (p + hdr(p))..(q - 1) :
                            response[r] \in Whitespace}
        F == {p \in H : nls(p) # {}}
        start(p) == Nth(nls(p), 1) + 1
        stop(p) == IF \E h \in H : h >= start(p)
                   THEN Nth({h \in H : h >= start(p)}, 1) - 1
                   ELSE n
    IN  [k \in 1..Cardinality(F) |->
            SubSeq(response, start(Nth(F, k)), stop(Nth(F, k)))]

\* CategoryCreator._parse_single_category: <<>> stands for None
parse_single_category(block, category_id) ==
    LET lines == StrippedLines(Split(block, "\n"))
        value(line) == Strip(SplitOnce(line, ":")[2])
        items(line) == StrippedLines(Split(value(line), ","))
        starts(line, prefixes) ==
            \E px \in prefixes : StartsWith(Lower(line), px)
        acc[k \in 0..Len(lines)] ==
            IF k = 0
            THEN [name |-> <<>>, description |-> <<>>, keywords |-> <<>>,
                  issue_types |-> <<>>, examples |-> <<>>]
            ELSE LET line == lines[k]
                     was == acc[k - 1]
                 IN  IF starts(line, {CatText.name})
                     THEN [was EXCEPT !.name = value(line)]
                     ELSE IF starts(line, {CatText.description})
                     THEN [was EXCEPT !.description = value(line)]
                     ELSE IF starts(line, CatText.keywords)
                     THEN [was EXCEPT !.keywords = items(line)]
                     ELSE IF starts(line, CatText.issue_types)
                     THEN [was EXCEPT !.issue_types = items(line)]
                     ELSE IF starts(line, {CatText.examples})
                     THEN [was EXCEPT !.examples = items(line)]
                     ELSE was
        got == acc[Len(lines)]
    IN  IF got.name # <<>> /\ got.description # <<>>
        THEN <<[id |-> category_id, name |-> got.name,
                description |-> got.description, keywords |-> got.keywords,
                issue_types |-> got.issue_types, examples |-> got.examples]>>
        ELSE <<>>

\* CategoryCreator._parse_categories_fallback: every line that holds
\* 'название:' or holds no colon opens a category named after the line
parse_categories_fallback(response) ==
    LET lines == StrippedLines(Split(response, "\n"))
        opens(line) == \/ Contains(Lower(line), CatText.name)
                       \/ \A p \in 1..Len(line) : line[p] # ":"
        named == SelectSeq(lines, opens)
        \* str.replace(pattern, ''), the pattern being two distinct characters
        remove(t, pattern) ==
            LET at == {p \in 1..(Len(t) - 1) : SubSeq(t, p, p + 1) = pattern}
                parts == Pieces(t, at, [p \in 1..Len(t) |-> 2])
                joined[k \in 0..Len(parts)] ==
                    IF k = 0 THEN <<>> ELSE joined[k - 1] \o parts[k]
            IN  joined[Len(parts)]
        name(line) == Strip(remove(remove(line, CatText.Name), CatText.name))
    IN  [k \in 1..Len(named) |->
            [id |-> k,
             name |-> IF name(named[k]) # <<>> THEN name(named[k])
                      ELSE CatText.auto_name
                           \o <<CHOOSE d \in Digits : DigitVal(d) = k % 10>>,
             description |-> CatText.auto_description,
             keywords |-> <<>>, issue_types |-> <<>>, examples |-> <<>>]]

\* CategoryCreator._parse_categories_response; warnings counts the calls of
\* logger.warning
creator_parse_categories_response(response) ==
    LET blocks == CategoryBlocks(response)
        parsed[k \in 0..Len(blocks)] ==
            IF k = 0 THEN <<>>
            ELSE parsed[k - 1] \o parse_single_category(blocks[k], k)
        categories == parsed[Len(blocks)]
    IN  IF categories = <<>>
        THEN [raised |-> FALSE, results |-> parse_categories_fallback(response),
              warnings |-> 1]
        ELSE [raised |-> FALSE, results |-> categories, warnings |-> 0]

\* blocks of a response to the category-creation prompt
CatBlock ==
    [good_a |-> JoinLines(<<<<"C", "_", "1", ":">>, <<"N", ":", " ", "A">>,
                            <<"D", ":", " ", "d">>,
                            <<"K", "_", "w", ":", " ", "k", ",", " ", "l">>>>),
     good_b |-> JoinLines(<<<<"c", "_", "2", ":", " ">>,
                            <<" ", "n", ":", " ", "B">>,
                            <<"T", " ", "z", ":", "t">>,
                            <<"d", ":", " ", "e">>>>),
     nodesc |-> JoinLines(<<<<"C", "_", "3", ":">>, <<"N", ":", " ", "A">>>>),
     noname |-> JoinLines(<<<<"C", "_", "4", ":">>, <<"N", ":", " ">>,
                            <<"D", ":", " ", "d">>>>),
     inline |-> <<"C", "_", "5", ":", " ", "N", ":", " ", "A">>,
     free |-> <<"o", "k">>]

\* a response of one of the two formats, and the parser that will read it
CatParseInit ==
    /\ \/ /\ ppc = "table"
          /\ pr_lines \in SeqsUpTo({CatLine[f] : f \in DOMAIN CatLine}
                                       \cup {<<>>},
                                   MaxResponseLines)
       \/ /\ ppc = "blocks"
          /\ pr_lines \in SeqsUpTo({CatBlock[f] : f \in DOMAIN CatBlock}
                                       \cup {<<>>},
                                   MaxBlocks)
    /\ pr_batch = <<>>
    /\ pr_categories = <<>>
    /\ pr_out = [raised |-> FALSE, results |-> <<>>, warnings |-> 0]
    /\ PoolOff /\ ConsOff /\ BatchOff /\ ClsOff /\ SampleOff /\ PipeOff

\* parse_categories_response of src/pipeline/category_generator.py: it has
\* no logging call
ParseCategoryTable ==
    /\ ppc = "table"
    /\ pr_out' = [raised |-> FALSE,
                  results |-> parse_categories_response(JoinLines(pr_lines)),
                  warnings |-> 0]
    /\ ppc' = "table_parsed"
    /\ ParseFrame
    /\ UNCHANGED <<pr_lines, pr_batch, pr_categories>>

ParseCategoryBlocks ==
    /\ ppc = "blocks"
    /\ pr_out' = creator_parse_categories_response(JoinLines(pr_lines))
    /\ ppc' = "blocks_parsed"
    /\ ParseFrame
    /\ UNCHANGED <<pr_lines, pr_batch, pr_categories>>

-----------------------------------------------------------------------------
(* Properties of the category parsers *)

\* C19: for a response made only of well-formed records and of records with
\* too few fields, in any order, a category parser returns one record per
\* well-formed record, in response order, reports one skip per malformed
\* record, and does not raise.
C19_MalformedSkipped ==
    LET Pair(nm, ds) == [name |-> nm, description |-> ds]
        well ==
            IF ppc = "table_parsed"
            THEN (CatLine.a :> Pair(<<"A">>, <<"d">>))
                 @@ (CatLine.a2 :> Pair(<<"A">>, <<"e">>))
                 @@ (CatLine.b :> Pair(<<"B">>, <<"e">>))
            ELSE (CatBlock.good_a :> Pair(<<"A">>, <<"d">>))
                 @@ (CatBlock.good_b :> Pair(<<"B">>, <<"e">>))
        malformed ==
            IF ppc = "table_parsed" THEN {CatLine.short, CatLine.one}
            ELSE {CatBlock.nodesc, CatBlock.noname}
        expected == SelectSeq(pr_lines, LAMBDA piece : piece \in DOMAIN well)
        skipped == SelectSeq(pr_lines, LAMBDA piece : piece \in malformed)
    IN  (/\ ppc \in {"table_parsed", "blocks_parsed"}
         /\ \A k \in 1..Len(pr_lines) :
               pr_lines[k] \in DOMAIN well \cup malformed) =>
            /\ ~pr_out.raised
            /\ Len(pr_out.results) = Len(expected)
            /\ \A k \in 1..Len(expected) :
                  Pair(pr_out.results[k].name, pr_out.results[k].description)
                      = well[expected[k]]
            /\ pr_out.warnings = Len(skipped)

\* C20: every record a category parser emits has a non-empty name and a
\* non-empty description taken from the response.
C20_NoPartialRecords ==
    ppc \in {"table_parsed", "blocks_parsed"} =>
        \A k \in 1..Len(pr_out.results) :
            /\ pr_out.results[k].name # <<>>
            /\ pr_out.results[k].description # <<>>
            /\ pr_out.results[k].description # CatText.auto_description

-----------------------------------------------------------------------------
(* TaskClassifier._parse_batch_response as a function of the response text *)

\* a response in pieces: task blocks under a header numbered 1 or 7, and
\* words without a header; a batch and a category list
BatchResponseInit ==
    /\ pr_lines \in SeqsUpTo(
          {BlockHeader(1, numbering) \o Block[f] :
              numbering \in {"position", "fixed"}, f \in DOMAIN Block}
          \cup {<<"o", "k">>},
          MaxBlocks)
    /\ pr_batch \in {TaskTable(n) : n \in 1..MaxBatchSize}
    /\ pr_categories \in CategoryLists
    /\ pr_out = ParseOk(<<>>)
    /\ ppc = "batch_response"
    /\ PoolOff /\ ConsOff /\ BatchOff /\ ClsOff /\ SampleOff /\ PipeOff

ParseBatchResponse ==
    /\ ppc = "batch_response"
    /\ pr_out' = ParseOk(parse_batch_response(JoinLines(pr_lines), pr_batch,
                                              pr_categories))
    /\ ppc' = "batch_parsed"
    /\ ParseFrame
    /\ UNCHANGED <<pr_lines, pr_batch, pr_categories>>

\* the pieces of the response that open a task block
HeadedPieces ==
    SelectSeq(pr_lines, LAMBDA piece : StartsWith(piece, ClsText.marker))

\* C21: when the response holds fewer task blocks than the batch has tasks,
\* none included, every task without a block gets a fallback result: the
\* first category as chosen category, confidence 0, a score of 0 for every
\* listed category, no alternative and the 'task not processed' reasoning.
C21_MissingBlocksGetFallback ==
    ppc = "batch_parsed" =>
        /\ Len(pr_out.results) = Len(pr_batch)
        /\ \A i \in (Len(HeadedPieces) + 1)..Len(pr_batch) :
              pr_out.results[i] =
                  [task_id |-> pr_batch[i],
                   category_scores |->
                       [c \in 1..Len(pr_categories) |->
                           [cat |-> pr_categories[c], score |-> 0]],
                   final_category |-> pr_categories[1],
                   confidence |-> 0,
                   reasoning |-> ClsText.missing,
                   alternative_categories |-> <<>>]

\* a batch of two tasks and a response with one block: the second task
\* gets the fallback
C21_Witness ==
    /\ ppc = "batch_parsed"
    /\ Len(pr_batch) = 2
    /\ Len(HeadedPieces) = 1
    /\ pr_out.results[1].confidence > 0
    /\ pr_out.results[2].reasoning = ClsText.missing

\* C30: whatever the response text, every result the classification parser
\* builds has a confidence within 0..100 and every relevance score it
\* records is within 0..100.
C30_ConfidenceInRange ==
    ppc = "batch_parsed" =>
        \A i \in 1..Len(pr_out.results) :
            /\ pr_out.results[i].confidence \in 0..100
            /\ \A k \in 1..Len(pr_out.results[i].category_scores) :
                  pr_out.results[i].category_scores[k].score \in 0..100

-----------------------------------------------------------------------------
(* Specifications *)

InitPool == PoolInit /\ ConsOff /\ BatchOff /\ ParseOff /\ ClsOff /\ SampleOff /\ PipeOff
InitRetry == RetryInit /\ ConsOff /\ BatchOff /\ ParseOff /\ ClsOff /\ SampleOff /\ PipeOff
InitConsolidator == ConsInit /\ PoolOff /\ BatchOff /\ ParseOff /\ ClsOff /\ SampleOff /\ PipeOff
InitBatch == BatchInit /\ PoolOff /\ ConsOff /\ ParseOff /\ ClsOff /\ SampleOff /\ PipeOff
InitParse == ParseInit /\ PoolOff /\ ConsOff /\ BatchOff /\ ClsOff /\ SampleOff /\ PipeOff
InitClassifier == ClsInit /\ PoolOff /\ ConsOff /\ BatchOff /\ ParseOff /\ SampleOff /\ PipeOff

SpecPool == InitPool /\ [][PoolNext]_vars

\* the model call a worker is waiting in returns or raises: whatever the
\* outcome, the pass of the loop that made it is counted
ModelCallEnds(u) == upc[u] = "try" /\ calls' = [calls EXCEPT ![u] = @ + 1]

\* the pool when threads are scheduled and calls end: a free worker takes a
\* queued unit, a model call in flight returns or raises, time.sleep
\* returns, and the coordinating thread consumes a completed future and
\* leaves the `with` block when all are consumed
SpecPoolFair ==
    /\ InitPool
    /\ [][PoolNext]_vars
    /\ WF_upc(\E u \in units : WorkerStart(u))
    /\ WF_calls(\E u \in units : ModelCallEnds(u))
    /\ WF_upc(\E u \in units : WorkerWake(u))
    /\ WF_drained(\E u \in units : CoordDrain(u))
    /\ WF_cpc(CoordFinish)

SpecRetry == InitRetry /\ [][PoolNext]_vars

SpecConsolidator == InitConsolidator /\ [][ConsNext]_vars

SpecBatch == InitBatch /\ [][BatchNext]_vars

SpecParse == InitParse /\ [][ParseResponse]_vars

SpecClassifier == InitClassifier /\ [][ClsNext]_vars

SpecCatParse ==
    CatParseInit /\ [][ParseCategoryTable \/ ParseCategoryBlocks]_vars

SpecBatchResponse == BatchResponseInit /\ [][ParseBatchResponse]_vars

InitSample == SampleInit /\ PoolOff /\ ConsOff /\ BatchOff /\ ParseOff /\ ClsOff /\ PipeOff

SpecSample == InitSample /\ [][SampleNext]_vars

InitPipeline == PipeInit /\ PoolOff /\ ConsOff /\ BatchOff /\ ParseOff /\ ClsOff /\ SampleOff

SpecPipeline == InitPipeline /\ [][PipeNext]_vars
====
